---- MODULE Spec2Model ----
(***************************************************************************)
(* Project import/export service of MuMuAINovel                            *)
(* (backend/app/services/import_export_service.py).                        *)
(*                                                                         *)
(* The entity store is a committed database `db` plus, per database        *)
(* session, the rows of the open transaction `tx`.  import_project runs as *)
(* a sequence of steps (one action per step of its body); an exception     *)
(* raised by a step runs the except handler (rollback + failure result).   *)
(* export_project is one read-only action producing a document.            *)
(***************************************************************************)
EXTENDS Integers, Sequences, FiniteSets, TLC

VARIABLES
    db,               \* committed rows, one set per table
    tx,               \* tx[s]: rows added in session s and not yet committed
    autoflush,        \* session option: pending rows are flushed before a query
    pc,               \* pc[s]: position of session s inside import_project
    call,             \* call[s]: number of the import_project call s is running
    calls,            \* number of import_project calls started so far
    data,             \* data[s]: the document argument
    user_id,          \* user_id[s]: the target user argument
    new_project,      \* new_project[s]: id of the Project row of this call
    char_mapping,     \* char_mapping[s]: character name -> new id
    outline_mapping,  \* outline_mapping[s]: outline title -> new id
    org_mapping,      \* org_mapping[s]: organization (character) name -> new id
    validation,       \* validation[s]: the ImportValidationResult of this call
    statistics,       \* statistics[s]: category -> count
    warnings,         \* warnings[s]
    result,           \* result[s]: the ImportResult returned by the last call
    log,              \* log[s]: storage operations issued by the current call
    export_data,      \* the document returned by the last export_project
    history,          \* successful calls so far: data, user, statistics
    formatted,        \* the last format_prompt call: arguments and outcome
    prompt_templates, \* the user-template store (PromptTemplate rows)
    lookup            \* the last get_template_with_fallback call and its outcome

vars == <<db, tx, autoflush, pc, call, calls, data, user_id, new_project,
          char_mapping, outline_mapping, org_mapping, validation, statistics,
          warnings, result, log, export_data, history,
          formatted, prompt_templates, lookup>>

\* the state of the prompt service
promptVars == <<formatted, prompt_templates, lookup>>

\* the state of the import/export service
importVars ==
    <<db, tx, autoflush, pc, call, calls, data, user_id, new_project,
      char_mapping, outline_mapping, org_mapping, validation, statistics,
      warnings, result, log, export_data, history>>

----------------------------------------------------------------------------
(* Bounds *)

\* import_project calls per behaviour
MaxCalls == 2

----------------------------------------------------------------------------
(* Python values *)

\* Python's None, for names and titles (strings)
None == "None"
\* None for an identifier; identifiers are <<call, n>>: the n-th row minted by
\* import_project call number `call`
NoId == <<0, 0>>

\* truthiness of a string value: `if not x`
Falsy(x) == x = None \/ x = ""

\* dict.get(k, default) / dict.get(k): documents and their elements are
\* functions from the keys that are present
_get(d, k, default) == IF k \in DOMAIN d THEN d[k] ELSE default

\* a dict without key k
Without(d, k) == [kk \in (DOMAIN d) \ {k} |-> d[kk]]

\* A Python dict is a set of [k, v] entries with distinct keys
EmptyDict == {}
DictKeys(m) == {e.k : e \in m}
DictPut(m, key, val) == {e \in m : e.k # key} \cup {[k |-> key, v |-> val]}
DictGet(m, key, default) ==
    IF key \in DictKeys(m) THEN (CHOOSE e \in m : e.k = key).v ELSE default
DictLen(m) == Cardinality(m)

\* variant of Join: only the first message is kept
RECURSIVE JoinFirstOnly(_, _)
JoinFirstOnly(msgs, sep) ==
    IF msgs = <<>> THEN <<>> ELSE Head(msgs)

\* ", ".join(msgs): messages are sequences of tokens
RECURSIVE Join(_, _)
Join(msgs, sep) ==
    IF msgs = <<>> THEN <<>>
    ELSE IF Len(msgs) = 1 THEN Head(msgs)
    ELSE Head(msgs) \o <<sep>> \o Join(Tail(msgs), sep)

\* a value that is not a dict (a string, a list, ...): .get raises on it
NotADict == [py_type |-> "str"]
IsDict(x) == "py_type" \notin DOMAIN x

----------------------------------------------------------------------------
(* validate_import_data *)

SUPPORTED_VERSION == "1.0.0"

ERR_NO_VERSION == <<"missing version">>
ERR_NO_PROJECT == <<"missing project">>
ERR_NO_TITLE == <<"project title empty">>
WARN_NO_CHAPTERS == <<"no chapters">>
WARN_NO_CHARACTERS == <<"no characters">>
WarnVersion(version) == <<"version mismatch", version, SUPPORTED_VERSION>>

StatKeySet ==
    {"chapters", "characters", "outlines", "relationships", "organizations",
     "organization_members", "writing_styles", "generation_history"}
StatKeys ==
    <<"chapters", "characters", "outlines", "relationships", "organizations",
      "organization_members", "writing_styles", "generation_history">>

\* variant of ValidationStatistics: nothing is counted without a project block
ValidationStatisticsProjectOnly(d) ==
    {[k |-> StatKeys[i],
      v |-> IF "project" \in DOMAIN d THEN Len(_get(d, StatKeys[i], <<>>)) ELSE 0] :
        i \in 1..Len(StatKeys)}

\* statistics = {key: len(data.get(key, []))}
ValidationStatistics(d) ==
    {[k |-> StatKeys[i], v |-> Len(_get(d, StatKeys[i], <<>>))] : i \in 1..Len(StatKeys)}

\* validate_import_data raises when data["project"] is not a dict
ValidationRaises(d) == "project" \in DOMAIN d /\ ~IsDict(d.project)

\* variant of validate_import_data: a version mismatch is an error
validate_import_data_strict(d) ==
    LET version == _get(d, "version", "")
        verr == IF Falsy(version) THEN <<ERR_NO_VERSION>>
                ELSE IF version # SUPPORTED_VERSION THEN <<WarnVersion(version)>>
                ELSE <<>>
        perr == IF "project" \notin DOMAIN d THEN <<ERR_NO_PROJECT>>
                ELSE IF Falsy(_get(d.project, "title", None)) THEN <<ERR_NO_TITLE>>
                ELSE <<>>
        stats == ValidationStatistics(d)
        cwarn == IF DictGet(stats, "chapters", 0) = 0 THEN <<WARN_NO_CHAPTERS>> ELSE <<>>
        awarn == IF DictGet(stats, "characters", 0) = 0 THEN <<WARN_NO_CHARACTERS>> ELSE <<>>
        errors == verr \o perr
    IN  [valid |-> errors = <<>>,
         version |-> version,
         project_name |-> _get(_get(d, "project", <<>>), "title", "unknown project"),
         statistics |-> stats,
         errors |-> errors,
         warnings |-> cwarn \o awarn]

validate_import_data(d) ==
    LET version == _get(d, "version", "")
        verr == IF Falsy(version) THEN <<ERR_NO_VERSION>> ELSE <<>>
        vwarn == IF ~Falsy(version) /\ version # SUPPORTED_VERSION
                 THEN <<WarnVersion(version)>> ELSE <<>>
        perr == IF "project" \notin DOMAIN d THEN <<ERR_NO_PROJECT>>
                ELSE IF Falsy(_get(d.project, "title", None)) THEN <<ERR_NO_TITLE>>
                ELSE <<>>
        stats == ValidationStatistics(d)
        cwarn == IF DictGet(stats, "chapters", 0) = 0 THEN <<WARN_NO_CHAPTERS>> ELSE <<>>
        awarn == IF DictGet(stats, "characters", 0) = 0 THEN <<WARN_NO_CHARACTERS>> ELSE <<>>
        errors == verr \o perr
    IN  [valid |-> errors = <<>>,
         version |-> version,
         project_name |-> _get(_get(d, "project", <<>>), "title", "unknown project"),
         statistics |-> stats,
         errors |-> errors,
         warnings |-> vwarn \o cwarn \o awarn]

----------------------------------------------------------------------------
(* The entity store *)

Tables ==
    {"projects", "characters", "outlines", "chapters", "relationships",
     "organizations", "members", "styles", "generation_history"}

EmptyStore == [t \in Tables |-> {}]

\* number of rows of a transaction: the next identifier of call c is <<c, n+1>>
RECURSIVE SumCard(_, _)
SumCard(st, ts) ==
    IF ts = {} THEN 0
    ELSE LET t == CHOOSE x \in ts : TRUE
         IN  Cardinality(st[t]) + SumCard(st, ts \ {t})
StoreSize(st) == SumCard(st, Tables)
\* variant of NewId: the call number is not part of the identifier
NewIdReused(c, st) == <<1, StoreSize(st) + 1>>
NewId(c, st) == <<c, StoreSize(st) + 1>>

\* db.add(row)
Add(st, table, row) == [st EXCEPT ![table] = @ \cup {row}]

\* rows a query of a session sees: committed rows and the session's own flushed rows
Visible(committed, pending, table) == committed[table] \cup pending[table]

\* scalar_one_or_none() of select(...).where(id == x)
HasRow(rows, id) == \E r \in rows : r.id = id
RowById(rows, id) == CHOOSE r \in rows : r.id = id

\* session.commit(): the pending rows become committed
CommitStore(committed, pending) == [t \in Tables |-> committed[t] \cup pending[t]]

\* variant of RollbackStore: the pending rows stay in the session
RollbackStoreKeeps(pending) == pending

\* session.rollback(): the pending rows are discarded
RollbackStore(pending) == EmptyStore

\* rows of the store minted by import_project call c
RowsOfCall(st, c) == UNION {{r \in st[t] : r.id[1] = c} : t \in Tables}

----------------------------------------------------------------------------
(* import_project: the steps *)

\* variant of NewProjectRow: the owner recorded in the document wins
NewProjectRowDocOwner(id, uid, project_data) ==
    [id |-> id,
     user_id |-> _get(project_data, "user_id", uid),
     title |-> _get(project_data, "title", None),
     genre |-> _get(project_data, "genre", None),
     status |-> _get(project_data, "status", "planning"),
     outline_mode |-> _get(project_data, "outline_mode", "one-to-many"),
     current_words |-> _get(project_data, "current_words", 0),
     wizard_step |-> 4,
     wizard_status |-> "completed"]

\* Project(user_id=user_id, title=..., ...)
NewProjectRow(id, uid, project_data) ==
    [id |-> id,
     user_id |-> uid,
     title |-> _get(project_data, "title", None),
     genre |-> _get(project_data, "genre", None),
     status |-> _get(project_data, "status", "planning"),
     outline_mode |-> _get(project_data, "outline_mode", "one-to-many"),
     current_words |-> _get(project_data, "current_words", 0),
     wizard_step |-> 4,
     wizard_status |-> "completed"]

\* _import_characters: one row per element, flushed at once; the mapping keeps
\* the last identifier of a name
RECURSIVE _import_characters(_, _, _, _)
_import_characters(c, project_id, characters_data, acc) ==
    IF characters_data = <<>> THEN acc
    ELSE LET char_data == Head(characters_data)
             id == NewId(c, acc.tx)
             character == [id |-> id,
                           project_id |-> project_id,
                           name |-> _get(char_data, "name", None),
                           is_organization |-> _get(char_data, "is_organization", FALSE)]
         IN  _import_characters(c, project_id, Tail(characters_data),
                 [tx |-> Add(acc.tx, "characters", character),
                  mapping |-> DictPut(acc.mapping, _get(char_data, "name", None), id),
                  log |-> acc.log \o <<"add Character", "flush">>])

\* _import_outlines: as _import_characters, keyed by title
RECURSIVE _import_outlines(_, _, _, _)
_import_outlines(c, project_id, outlines_data, acc) ==
    IF outlines_data = <<>> THEN acc
    ELSE LET ol_data == Head(outlines_data)
             id == NewId(c, acc.tx)
             outline == [id |-> id,
                         project_id |-> project_id,
                         title |-> _get(ol_data, "title", None),
                         order_index |-> _get(ol_data, "order_index", 0)]
         IN  _import_outlines(c, project_id, Tail(outlines_data),
                 [tx |-> Add(acc.tx, "outlines", outline),
                  mapping |-> DictPut(acc.mapping, _get(ol_data, "title", None), id),
                  log |-> acc.log \o <<"add Outline", "flush">>])

\* _import_chapters: every chapter is created; outline_id is set when the
\* outline_title is truthy and a key of outline_mapping
RECURSIVE _import_chapters(_, _, _, _, _)
_import_chapters(c, project_id, chapters_data, outline_map, acc) ==
    IF chapters_data = <<>> THEN acc
    ELSE LET ch_data == Head(chapters_data)
             outline_title == _get(ch_data, "outline_title", None)
             outline_id == IF ~Falsy(outline_title) /\ outline_title \in DictKeys(outline_map)
                           THEN DictGet(outline_map, outline_title, NoId)
                           ELSE NoId
             chapter == [id |-> NewId(c, acc.tx),
                         project_id |-> project_id,
                         title |-> _get(ch_data, "title", None),
                         chapter_number |-> _get(ch_data, "chapter_number", 0),
                         outline_id |-> outline_id]
         IN  _import_chapters(c, project_id, Tail(chapters_data), outline_map,
                 [tx |-> Add(acc.tx, "chapters", chapter),
                  count |-> acc.count + 1,
                  log |-> acc.log \o <<"add Chapter">>])

\* variant of RelationshipResolves: only the source is looked at
RelationshipResolvesSourceOnly(char_map, rel_data) ==
    DictGet(char_map, _get(rel_data, "source_name", None), NoId) # NoId

\* `if source_id and target_id`
RelationshipResolves(char_map, rel_data) ==
    /\ DictGet(char_map, _get(rel_data, "source_name", None), NoId) # NoId
    /\ DictGet(char_map, _get(rel_data, "target_name", None), NoId) # NoId

\* _import_relationships: a row only when both names resolve in char_mapping
RECURSIVE _import_relationships(_, _, _, _, _)
_import_relationships(c, project_id, relationships_data, char_map, acc) ==
    IF relationships_data = <<>> THEN acc
    ELSE LET rel_data == Head(relationships_data)
             source_id == DictGet(char_map, _get(rel_data, "source_name", None), NoId)
             target_id == DictGet(char_map, _get(rel_data, "target_name", None), NoId)
             relationship == [id |-> NewId(c, acc.tx),
                              project_id |-> project_id,
                              character_from_id |-> source_id,
                              character_to_id |-> target_id,
                              intimacy_level |-> _get(rel_data, "intimacy_level", 50)]
         IN  _import_relationships(c, project_id, Tail(relationships_data), char_map,
                 IF RelationshipResolves(char_map, rel_data)
                 THEN [tx |-> Add(acc.tx, "relationships", relationship),
                       count |-> acc.count + 1,
                       log |-> acc.log \o <<"add CharacterRelationship">>]
                 ELSE acc)

\* _import_organizations, first pass: a row (without parent) for every element
\* whose character_name resolves; temp_orgs keeps (organization, parent_org_name)
RECURSIVE OrgCreatePass(_, _, _, _, _)
OrgCreatePass(c, project_id, organizations_data, char_map, acc) ==
    IF organizations_data = <<>> THEN acc
    ELSE LET org_data == Head(organizations_data)
             char_id == DictGet(char_map, _get(org_data, "character_name", None), NoId)
             id == NewId(c, acc.tx)
             organization == [id |-> id,
                              project_id |-> project_id,
                              character_id |-> char_id,
                              parent_org_id |-> NoId,
                              power_level |-> _get(org_data, "power_level", 50),
                              member_count |-> _get(org_data, "member_count", 0)]
         IN  OrgCreatePass(c, project_id, Tail(organizations_data), char_map,
                 IF char_id # NoId
                 THEN [tx |-> Add(acc.tx, "organizations", organization),
                       temp_orgs |-> Append(acc.temp_orgs,
                                        [org |-> id,
                                         character_id |-> char_id,
                                         parent_name |-> _get(org_data, "parent_org_name", None)]),
                       log |-> acc.log \o <<"add Organization">>]
                 ELSE acc)

\* _import_organizations, the mapping loop: the name of each organization's
\* character row, read back from the session, -> organization id
RECURSIVE OrgMappingPass(_, _, _)
OrgMappingPass(temp_orgs, characters, mapping) ==
    IF temp_orgs = <<>> THEN mapping
    ELSE LET t == Head(temp_orgs)
         IN  OrgMappingPass(Tail(temp_orgs), characters,
                 IF HasRow(characters, t.character_id)
                 THEN DictPut(mapping, RowById(characters, t.character_id).name, t.org)
                 ELSE mapping)

\* org.parent_org_id = parent_id on the pending row
SetParent(st, org_id, parent_id) ==
    [st EXCEPT !["organizations"] =
        {IF o.id = org_id THEN [o EXCEPT !.parent_org_id = parent_id] ELSE o : o \in @}]

\* variant of OrgParentPass: a single pass, in which a parent resolves only when
\* its organization came earlier in the document
RECURSIVE OrgParentEarlier(_, _, _, _)
OrgParentEarlier(temp_orgs, mapping, seen, acc) ==
    IF temp_orgs = <<>> THEN acc
    ELSE LET t == Head(temp_orgs)
             parent_id == DictGet(mapping, t.parent_name, NoId)
         IN  OrgParentEarlier(Tail(temp_orgs), mapping, seen \cup {t.org},
                 IF ~Falsy(t.parent_name) /\ parent_id \in seen
                 THEN [tx |-> SetParent(acc.tx, t.org, parent_id),
                       log |-> acc.log \o <<"set parent_org_id">>]
                 ELSE acc)
OrgParentSinglePass(temp_orgs, mapping, acc) == OrgParentEarlier(temp_orgs, mapping, {}, acc)

\* _import_organizations, second pass: parent_org_name resolved in org_mapping
RECURSIVE OrgParentPass(_, _, _)
OrgParentPass(temp_orgs, mapping, acc) ==
    IF temp_orgs = <<>> THEN acc
    ELSE LET t == Head(temp_orgs)
             parent_id == DictGet(mapping, t.parent_name, NoId)
         IN  OrgParentPass(Tail(temp_orgs), mapping,
                 IF ~Falsy(t.parent_name) /\ parent_id # NoId
                 THEN [tx |-> SetParent(acc.tx, t.org, parent_id),
                       log |-> acc.log \o <<"set parent_org_id">>]
                 ELSE acc)

_import_organizations(c, project_id, organizations_data, char_map, committed, acc) ==
    LET created == OrgCreatePass(c, project_id, organizations_data, char_map,
                       [tx |-> acc.tx, temp_orgs |-> <<>>, log |-> acc.log])
        flushed == created.log \o <<"flush">>
        mapping == OrgMappingPass(created.temp_orgs,
                       Visible(committed, created.tx, "characters"), EmptyDict)
        linked == OrgParentPass(created.temp_orgs, mapping,
                       [tx |-> created.tx,
                        log |-> flushed \o [i \in 1..Len(created.temp_orgs) |-> "execute"]])
    IN  [tx |-> linked.tx, mapping |-> mapping, log |-> linked.log]

\* variant of MemberResolves: only the character is looked at
MemberResolvesCharacterOnly(char_map, org_map, member_data) ==
    DictGet(char_map, _get(member_data, "character_name", None), NoId) # NoId

\* `if org_id and char_id`
MemberResolves(char_map, org_map, member_data) ==
    /\ DictGet(org_map, _get(member_data, "organization_name", None), NoId) # NoId
    /\ DictGet(char_map, _get(member_data, "character_name", None), NoId) # NoId

\* _import_organization_members: a row only when organization and character resolve
RECURSIVE _import_organization_members(_, _, _, _, _)
_import_organization_members(c, org_members_data, char_map, org_map, acc) ==
    IF org_members_data = <<>> THEN acc
    ELSE LET member_data == Head(org_members_data)
             member == [id |-> NewId(c, acc.tx),
                        organization_id |->
                            DictGet(org_map, _get(member_data, "organization_name", None), NoId),
                        character_id |->
                            DictGet(char_map, _get(member_data, "character_name", None), NoId),
                        rank |-> _get(member_data, "rank", 0),
                        loyalty |-> _get(member_data, "loyalty", 50),
                        contribution |-> _get(member_data, "contribution", 0)]
         IN  _import_organization_members(c, Tail(org_members_data), char_map, org_map,
                 IF MemberResolves(char_map, org_map, member_data)
                 THEN [tx |-> Add(acc.tx, "members", member),
                       count |-> acc.count + 1,
                       log |-> acc.log \o <<"add OrganizationMember">>]
                 ELSE acc)

\* variant of VisibleStyles: the lookup misses the committed styles
VisibleStylesPendingOnly(committed, pending, flush_first) ==
    IF flush_first THEN pending["styles"] ELSE {}

\* rows the style lookup of a session sees: the committed styles and, when the
\* session flushes before a query, the styles it has added itself
VisibleStyles(committed, pending, flush_first) ==
    committed["styles"] \cup (IF flush_first THEN pending["styles"] ELSE {})

\* variant of ExistingStyles: the lookup is keyed by the project instead of the user
ExistingStylesByProject(styles, uid, style_name) ==
    {w \in styles : w.user_id = "project_id" /\ w.name = style_name}

\* select(WritingStyle).where(user_id == uid, name == style_name)
ExistingStyles(styles, uid, style_name) ==
    {w \in styles : w.user_id = uid /\ w.name = style_name}

\* WritingStyle(user_id=project.user_id, name=..., ...)
NewStyleRow(id, uid, style_data) ==
    [id |-> id,
     user_id |-> uid,
     name |-> _get(style_data, "name", None),
     style_type |-> _get(style_data, "style_type", None),
     preset_id |-> _get(style_data, "preset_id", None),
     description |-> _get(style_data, "description", None),
     prompt_content |-> _get(style_data, "prompt_content", None),
     order_index |-> _get(style_data, "order_index", 0)]

\* _import_writing_styles, the loop: check-then-create per style;
\* scalar_one_or_none() raises when the lookup finds more than one row
RECURSIVE StyleLoop(_, _, _, _, _, _)
StyleLoop(c, uid, styles_data, committed, flush_first, acc) ==
    IF styles_data = <<>> \/ acc.raised THEN acc
    ELSE LET style_data == Head(styles_data)
             existing == ExistingStyles(VisibleStyles(committed, acc.tx, flush_first),
                                        uid, _get(style_data, "name", None))
             style == NewStyleRow(NewId(c, acc.tx), uid, style_data)
             looked == acc.log \o <<"execute">>
         IN  StyleLoop(c, uid, Tail(styles_data), committed, flush_first,
                 IF Cardinality(existing) > 1
                 THEN [acc EXCEPT !.raised = TRUE, !.log = looked]
                 ELSE IF existing # {}
                 THEN [acc EXCEPT !.log = looked]
                 ELSE [tx |-> Add(acc.tx, "styles", style),
                       count |-> acc.count + 1,
                       raised |-> FALSE,
                       log |-> looked \o <<"add WritingStyle">>])

\* _import_writing_styles: the owner is read from the project row of project_id
_import_writing_styles(c, project_id, styles_data, committed, flush_first, acc) ==
    LET projects == Visible(committed, acc.tx, "projects")
        looked == acc.log \o <<"execute">>
    IN  IF ~HasRow(projects, project_id)
        THEN [tx |-> acc.tx, count |-> 0, raised |-> FALSE, log |-> looked]
        ELSE StyleLoop(c, RowById(projects, project_id).user_id, styles_data,
                       committed, flush_first,
                       [tx |-> acc.tx, count |-> 0, raised |-> FALSE, log |-> looked])

----------------------------------------------------------------------------
(* import_project: the actions *)

\* database sessions (one per request)
Sessions == {"s1", "s2"}

NoData == [no_data |-> TRUE]
\* validation before validate_import_data has returned
NoValidation == [no_validation |-> TRUE]
NoResult ==
    [success |-> FALSE, project_id |-> NoId, message |-> <<>>,
     statistics |-> EmptyDict, warnings |-> <<>>, returned |-> FALSE]

\* formatted before any format_prompt call, lookup before any template lookup
NoPrompt == [called |-> FALSE]
NoLookup == [called |-> FALSE]

\* export_data before any export_project call
NoExport == [project_id |-> NoId, raised |-> FALSE, document |-> NoData]

\* ImportResult(success=..., project_id=..., message=..., statistics=..., warnings=...)
ImportResult(success, project_id, message, stats, warns) ==
    [success |-> success, project_id |-> project_id, message |-> message,
     statistics |-> stats, warnings |-> warns, returned |-> TRUE]

MSG_VALIDATION_FAILED == "validation failed: "
MSG_IMPORT_FAILED == "import failed: "
MSG_IMPORT_OK == "import succeeded"
EXC_TEXT == "str(e)"

\* the import/export service before the first call
InitImport ==
    /\ db = EmptyStore
    /\ tx = [s \in Sessions |-> EmptyStore]
    /\ autoflush \in BOOLEAN
    /\ pc = [s \in Sessions |-> "idle"]
    /\ call = [s \in Sessions |-> 0]
    /\ calls = 0
    /\ data = [s \in Sessions |-> NoData]
    /\ user_id = [s \in Sessions |-> None]
    /\ new_project = [s \in Sessions |-> NoId]
    /\ char_mapping = [s \in Sessions |-> EmptyDict]
    /\ outline_mapping = [s \in Sessions |-> EmptyDict]
    /\ org_mapping = [s \in Sessions |-> EmptyDict]
    /\ validation = [s \in Sessions |-> NoValidation]
    /\ statistics = [s \in Sessions |-> EmptyDict]
    /\ warnings = [s \in Sessions |-> <<>>]
    /\ result = [s \in Sessions |-> NoResult]
    /\ log = [s \in Sessions |-> <<>>]
    /\ export_data = NoExport
    /\ history = <<>>

Init ==
    /\ InitImport
    /\ formatted = NoPrompt
    /\ prompt_templates = {}
    /\ lookup = NoLookup

\* variant of ExceptHandler: the failure result carries the id of the project row
ExceptHandlerWithId(s, stats, warns, ops) ==
    /\ tx' = [tx EXCEPT ![s] = RollbackStore(@)]
    /\ log' = [log EXCEPT ![s] = ops \o <<"rollback">>]
    /\ result' = [result EXCEPT ![s] =
           ImportResult(FALSE, new_project[s], <<MSG_IMPORT_FAILED, EXC_TEXT>>, stats, warns)]
    /\ pc' = [pc EXCEPT ![s] = "done"]

\* variant of ExceptHandler: the failure result carries no statistics
ExceptHandlerWithoutStatistics(s, stats, warns, ops) ==
    /\ tx' = [tx EXCEPT ![s] = RollbackStore(@)]
    /\ log' = [log EXCEPT ![s] = ops \o <<"rollback">>]
    /\ result' = [result EXCEPT ![s] =
           ImportResult(FALSE, NoId, <<MSG_IMPORT_FAILED, EXC_TEXT>>, EmptyDict, warns)]
    /\ pc' = [pc EXCEPT ![s] = "done"]

\* the except handler of import_project: rollback, then a failure result with
\* the statistics and warnings accumulated so far
ExceptHandler(s, stats, warns, ops) ==
    /\ tx' = [tx EXCEPT ![s] = RollbackStore(@)]
    /\ log' = [log EXCEPT ![s] = ops \o <<"rollback">>]
    /\ result' = [result EXCEPT ![s] =
           ImportResult(FALSE, NoId, <<MSG_IMPORT_FAILED, EXC_TEXT>>, stats, warns)]
    /\ pc' = [pc EXCEPT ![s] = "done"]

\* import_project, entry: locals are initialised and the document is validated;
\* an invalid document returns at once, a validator exception runs the handler
import_project(s, d, u) ==
    /\ pc[s] \in {"idle", "done"}
    /\ calls < MaxCalls
    /\ calls' = calls + 1
    /\ call' = [call EXCEPT ![s] = calls + 1]
    /\ data' = [data EXCEPT ![s] = d]
    /\ user_id' = [user_id EXCEPT ![s] = u]
    /\ new_project' = [new_project EXCEPT ![s] = NoId]
    /\ char_mapping' = [char_mapping EXCEPT ![s] = EmptyDict]
    /\ outline_mapping' = [outline_mapping EXCEPT ![s] = EmptyDict]
    /\ org_mapping' = [org_mapping EXCEPT ![s] = EmptyDict]
    /\ statistics' = [statistics EXCEPT ![s] = EmptyDict]
    /\ IF ValidationRaises(d)
       THEN /\ validation' = [validation EXCEPT ![s] = NoValidation]
            /\ warnings' = [warnings EXCEPT ![s] = <<>>]
            /\ ExceptHandler(s, EmptyDict, <<>>, <<>>)
       ELSE LET v == validate_import_data(d)
            IN  /\ validation' = [validation EXCEPT ![s] = v]
                /\ IF ~v.valid
                   THEN /\ result' = [result EXCEPT ![s] =
                               ImportResult(FALSE, NoId,
                                   <<MSG_VALIDATION_FAILED>> \o Join(v.errors, ", "),
                                   EmptyDict, v.warnings)]
                        /\ warnings' = [warnings EXCEPT ![s] = <<>>]
                        /\ log' = [log EXCEPT ![s] = <<>>]
                        /\ pc' = [pc EXCEPT ![s] = "done"]
                        /\ UNCHANGED tx
                   ELSE /\ warnings' = [warnings EXCEPT ![s] = v.warnings]
                        /\ result' = [result EXCEPT ![s] = NoResult]
                        /\ log' = [log EXCEPT ![s] = <<>>]
                        /\ pc' = [pc EXCEPT ![s] = "project"]
                        /\ UNCHANGED tx
    /\ UNCHANGED <<promptVars, db, autoflush, export_data, history>>

\* variant of CreateProject: the project is committed as soon as it is created
CreateProjectAndCommit(s) ==
    /\ pc[s] = "project"
    /\ LET id == NewId(call[s], tx[s])
       IN  /\ db' = CommitStore(db, Add(tx[s], "projects",
                        NewProjectRow(id, user_id[s], data[s].project)))
           /\ tx' = [tx EXCEPT ![s] = EmptyStore]
           /\ new_project' = [new_project EXCEPT ![s] = id]
    /\ log' = [log EXCEPT ![s] = @ \o <<"add Project", "flush", "commit">>]
    /\ pc' = [pc EXCEPT ![s] = "characters"]
    /\ UNCHANGED <<promptVars, autoflush, validation, call, calls, data, user_id, char_mapping,
                   outline_mapping, org_mapping, statistics, warnings, result,
                   export_data, history>>

\* new_project = Project(...); db.add(new_project); await db.flush()
CreateProject(s) ==
    /\ pc[s] = "project"
    /\ LET id == NewId(call[s], tx[s])
       IN  /\ tx' = [tx EXCEPT ![s] =
                  Add(@, "projects", NewProjectRow(id, user_id[s], data[s].project))]
           /\ new_project' = [new_project EXCEPT ![s] = id]
    /\ log' = [log EXCEPT ![s] = @ \o <<"add Project", "flush">>]
    /\ pc' = [pc EXCEPT ![s] = "characters"]
    /\ UNCHANGED <<promptVars, db, autoflush, validation, call, calls, data, user_id, char_mapping,
                   outline_mapping, org_mapping, statistics, warnings, result,
                   export_data, history>>

ImportCharacters(s) ==
    /\ pc[s] = "characters"
    /\ LET r == _import_characters(call[s], new_project[s],
                    _get(data[s], "characters", <<>>),
                    [tx |-> tx[s], mapping |-> EmptyDict, log |-> log[s]])
       IN  /\ tx' = [tx EXCEPT ![s] = r.tx]
           /\ log' = [log EXCEPT ![s] = r.log]
           /\ char_mapping' = [char_mapping EXCEPT ![s] = r.mapping]
           /\ statistics' = [statistics EXCEPT ![s] =
                  DictPut(@, "characters", DictLen(r.mapping))]
    /\ pc' = [pc EXCEPT ![s] = "outlines"]
    /\ UNCHANGED <<promptVars, db, autoflush, validation, call, calls, data, user_id, new_project,
                   outline_mapping, org_mapping, warnings, result, export_data,
                   history>>

ImportOutlines(s) ==
    /\ pc[s] = "outlines"
    /\ LET r == _import_outlines(call[s], new_project[s],
                    _get(data[s], "outlines", <<>>),
                    [tx |-> tx[s], mapping |-> EmptyDict, log |-> log[s]])
       IN  /\ tx' = [tx EXCEPT ![s] = r.tx]
           /\ log' = [log EXCEPT ![s] = r.log]
           /\ outline_mapping' = [outline_mapping EXCEPT ![s] = r.mapping]
           /\ statistics' = [statistics EXCEPT ![s] =
                  DictPut(@, "outlines", DictLen(r.mapping))]
    /\ pc' = [pc EXCEPT ![s] = "chapters"]
    /\ UNCHANGED <<promptVars, db, autoflush, validation, call, calls, data, user_id, new_project,
                   char_mapping, org_mapping, warnings, result, export_data,
                   history>>

\* variant of ImportChapters: the generation history of the document is
\* imported along with the chapters
ImportChaptersAndHistory(s) ==
    /\ pc[s] = "chapters"
    /\ LET r == _import_chapters(call[s], new_project[s],
                    _get(data[s], "chapters", <<>>), outline_mapping[s],
                    [tx |-> tx[s], count |-> 0, log |-> log[s]])
           gen == _get(data[s], "generation_history", <<>>)
           rows == {[id |-> <<call[s], StoreSize(r.tx) + i>>,
                     project_id |-> new_project[s],
                     chapter_id |-> NoId,
                     prompt |-> _get(gen[i], "prompt", None),
                     created_at |-> i] : i \in DOMAIN gen}
       IN  /\ tx' = [tx EXCEPT ![s] = [r.tx EXCEPT !["generation_history"] = @ \cup rows]]
           /\ log' = [log EXCEPT ![s] = r.log]
           /\ statistics' = [statistics EXCEPT ![s] =
                  DictPut(DictPut(@, "chapters", r.count), "generation_history", Len(gen))]
    /\ pc' = [pc EXCEPT ![s] = "relationships"]
    /\ UNCHANGED <<promptVars, db, autoflush, validation, call, calls, data, user_id, new_project,
                   char_mapping, outline_mapping, org_mapping, warnings, result,
                   export_data, history>>

ImportChapters(s) ==
    /\ pc[s] = "chapters"
    /\ LET r == _import_chapters(call[s], new_project[s],
                    _get(data[s], "chapters", <<>>), outline_mapping[s],
                    [tx |-> tx[s], count |-> 0, log |-> log[s]])
       IN  /\ tx' = [tx EXCEPT ![s] = r.tx]
           /\ log' = [log EXCEPT ![s] = r.log]
           /\ statistics' = [statistics EXCEPT ![s] = DictPut(@, "chapters", r.count)]
    /\ pc' = [pc EXCEPT ![s] = "relationships"]
    /\ UNCHANGED <<promptVars, db, autoflush, validation, call, calls, data, user_id, new_project,
                   char_mapping, outline_mapping, org_mapping, warnings, result,
                   export_data, history>>

\* variant of ImportRelationships: the names are resolved among all characters
\* of the store, the oldest character of a name first
ImportRelationshipsAnyProject(s) ==
    /\ pc[s] = "relationships"
    /\ LET characters == db["characters"] \cup tx[s]["characters"]
           Oldest(name) ==
               CHOOSE x \in characters :
                   /\ x.name = name
                   /\ \A y \in characters :
                          y.name = name =>
                              \/ x.id[1] < y.id[1]
                              \/ x.id[1] = y.id[1] /\ x.id[2] <= y.id[2]
           r == _import_relationships(call[s], new_project[s],
                    _get(data[s], "relationships", <<>>),
                    {[k |-> name, v |-> Oldest(name).id] :
                        name \in {x.name : x \in characters}},
                    [tx |-> tx[s], count |-> 0, log |-> log[s]])
       IN  /\ tx' = [tx EXCEPT ![s] = r.tx]
           /\ log' = [log EXCEPT ![s] = r.log]
           /\ statistics' = [statistics EXCEPT ![s] = DictPut(@, "relationships", r.count)]
    /\ pc' = [pc EXCEPT ![s] = "organizations"]
    /\ UNCHANGED <<promptVars, db, autoflush, validation, call, calls, data, user_id, new_project,
                   char_mapping, outline_mapping, org_mapping, warnings, result,
                   export_data, history>>

ImportRelationships(s) ==
    /\ pc[s] = "relationships"
    /\ LET r == _import_relationships(call[s], new_project[s],
                    _get(data[s], "relationships", <<>>), char_mapping[s],
                    [tx |-> tx[s], count |-> 0, log |-> log[s]])
       IN  /\ tx' = [tx EXCEPT ![s] = r.tx]
           /\ log' = [log EXCEPT ![s] = r.log]
           /\ statistics' = [statistics EXCEPT ![s] = DictPut(@, "relationships", r.count)]
    /\ pc' = [pc EXCEPT ![s] = "organizations"]
    /\ UNCHANGED <<promptVars, db, autoflush, validation, call, calls, data, user_id, new_project,
                   char_mapping, outline_mapping, org_mapping, warnings, result,
                   export_data, history>>

ImportOrganizations(s) ==
    /\ pc[s] = "organizations"
    /\ LET r == _import_organizations(call[s], new_project[s],
                    _get(data[s], "organizations", <<>>), char_mapping[s], db,
                    [tx |-> tx[s], log |-> log[s]])
       IN  /\ tx' = [tx EXCEPT ![s] = r.tx]
           /\ log' = [log EXCEPT ![s] = r.log]
           /\ org_mapping' = [org_mapping EXCEPT ![s] = r.mapping]
           /\ statistics' = [statistics EXCEPT ![s] =
                  DictPut(@, "organizations", DictLen(r.mapping))]
    /\ pc' = [pc EXCEPT ![s] = "members"]
    /\ UNCHANGED <<promptVars, db, autoflush, validation, call, calls, data, user_id, new_project,
                   char_mapping, outline_mapping, warnings, result, export_data,
                   history>>

ImportOrganizationMembers(s) ==
    /\ pc[s] = "members"
    /\ LET r == _import_organization_members(call[s],
                    _get(data[s], "organization_members", <<>>),
                    char_mapping[s], org_mapping[s],
                    [tx |-> tx[s], count |-> 0, log |-> log[s]])
       IN  /\ tx' = [tx EXCEPT ![s] = r.tx]
           /\ log' = [log EXCEPT ![s] = r.log]
           /\ statistics' = [statistics EXCEPT ![s] =
                  DictPut(@, "organization_members", r.count)]
    /\ pc' = [pc EXCEPT ![s] = "styles"]
    /\ UNCHANGED <<promptVars, db, autoflush, validation, call, calls, data, user_id, new_project,
                   char_mapping, outline_mapping, org_mapping, warnings, result,
                   export_data, history>>

\* the style lookup raising (more than one row) runs the except handler
ImportWritingStyles(s) ==
    /\ pc[s] = "styles"
    /\ LET r == _import_writing_styles(call[s], new_project[s],
                    _get(data[s], "writing_styles", <<>>), db, autoflush,
                    [tx |-> tx[s], log |-> log[s]])
       IN  IF r.raised
           THEN /\ ExceptHandler(s, statistics[s], warnings[s], r.log)
                /\ UNCHANGED statistics
           ELSE /\ tx' = [tx EXCEPT ![s] = r.tx]
                /\ log' = [log EXCEPT ![s] = r.log]
                /\ statistics' = [statistics EXCEPT ![s] =
                       DictPut(@, "writing_styles", r.count)]
                /\ pc' = [pc EXCEPT ![s] = "commit"]
                /\ UNCHANGED result
    /\ UNCHANGED <<promptVars, db, autoflush, validation, call, calls, data, user_id, new_project,
                   char_mapping, outline_mapping, org_mapping, warnings,
                   export_data, history>>

\* variant of Commit: the success result carries no warnings
CommitWithoutWarnings(s) ==
    /\ pc[s] = "commit"
    /\ db' = CommitStore(db, tx[s])
    /\ tx' = [tx EXCEPT ![s] = EmptyStore]
    /\ log' = [log EXCEPT ![s] = @ \o <<"commit">>]
    /\ result' = [result EXCEPT ![s] =
           ImportResult(TRUE, new_project[s], <<MSG_IMPORT_OK>>, statistics[s], <<>>)]
    /\ history' = Append(history,
           [call |-> call[s], data |-> data[s], user_id |-> user_id[s],
            statistics |-> statistics[s]])
    /\ pc' = [pc EXCEPT ![s] = "done"]
    /\ UNCHANGED <<promptVars, autoflush, validation, call, calls, data, user_id, new_project,
                   char_mapping, outline_mapping, org_mapping, statistics,
                   warnings, export_data>>

\* await db.commit(); return ImportResult(success=True, ...)
Commit(s) ==
    /\ pc[s] = "commit"
    /\ db' = CommitStore(db, tx[s])
    /\ tx' = [tx EXCEPT ![s] = EmptyStore]
    /\ log' = [log EXCEPT ![s] = @ \o <<"commit">>]
    /\ result' = [result EXCEPT ![s] =
           ImportResult(TRUE, new_project[s], <<MSG_IMPORT_OK>>, statistics[s], warnings[s])]
    /\ history' = Append(history,
           [call |-> call[s], data |-> data[s], user_id |-> user_id[s],
            statistics |-> statistics[s]])
    /\ pc' = [pc EXCEPT ![s] = "done"]
    /\ UNCHANGED <<promptVars, autoflush, validation, call, calls, data, user_id, new_project,
                   char_mapping, outline_mapping, org_mapping, statistics,
                   warnings, export_data>>

\* the positions at which a storage call of import_project can raise
RaisingSteps ==
    {"project", "characters", "outlines", "chapters", "relationships",
     "organizations", "members", "styles", "commit"}

\* a storage call of the current step raises: the except handler runs
RaiseException(s) ==
    /\ pc[s] \in RaisingSteps
    /\ ExceptHandler(s, statistics[s], warnings[s], log[s])
    /\ UNCHANGED <<promptVars, db, autoflush, validation, call, calls, data, user_id, new_project,
                   char_mapping, outline_mapping, org_mapping, statistics,
                   warnings, export_data, history>>

\* one step of the body of import_project
Step(s) ==
    \/ CreateProject(s)
    \/ ImportCharacters(s)
    \/ ImportOutlines(s)
    \/ ImportChapters(s)
    \/ ImportRelationships(s)
    \/ ImportOrganizations(s)
    \/ ImportOrganizationMembers(s)
    \/ ImportWritingStyles(s)
    \/ Commit(s)

----------------------------------------------------------------------------
(* Documents *)

Users == {"u1", "u2"}

\* elements of the arrays of a document; absent keys take the defaults of the code
CharacterData(name) == [name |-> name]
OutlineData(title) == [title |-> title]
ChapterData(title, outline_title) == [title |-> title, outline_title |-> outline_title]
RelationshipData(source_name, target_name) ==
    [source_name |-> source_name, target_name |-> target_name]
OrganizationData(character_name, parent_org_name) ==
    [character_name |-> character_name, parent_org_name |-> parent_org_name]
OrganizationMemberData(organization_name, character_name) ==
    [organization_name |-> organization_name, character_name |-> character_name]
WritingStyleData(name, prompt_content) ==
    [name |-> name, style_type |-> "custom", preset_id |-> None,
     description |-> None, prompt_content |-> prompt_content, order_index |-> 1]
GenerationHistoryData(prompt) == [prompt |-> prompt]

Body(characters, outlines, chapters, relationships, organizations, members, styles, gen) ==
    [characters |-> characters, outlines |-> outlines, chapters |-> chapters,
     relationships |-> relationships, organizations |-> organizations,
     organization_members |-> members, writing_styles |-> styles,
     generation_history |-> gen]

\* ProjectExportData as a JSON object
Document(version, project, b) ==
    [version |-> version, export_time |-> "utcnow", project |-> project,
     chapters |-> b.chapters, characters |-> b.characters, outlines |-> b.outlines,
     relationships |-> b.relationships, organizations |-> b.organizations,
     organization_members |-> b.organization_members,
     writing_styles |-> b.writing_styles,
     generation_history |-> b.generation_history]

BodyEmpty == Body(<<>>, <<>>, <<>>, <<>>, <<>>, <<>>, <<>>, <<>>)

\* one row or more for every table, a dangling relationship, a child
\* organization listed before its parent
BodyFull ==
    Body(<<CharacterData("A"), CharacterData("B")>>,
         <<OutlineData("O1")>>,
         <<ChapterData("ch1", "O1"), ChapterData("ch2", None)>>,
         <<RelationshipData("A", "B"), RelationshipData("A", "X")>>,
         <<OrganizationData("B", "A"), OrganizationData("A", None)>>,
         <<OrganizationMemberData("A", "B")>>,
         <<WritingStyleData("S1", "p1")>>,
         <<GenerationHistoryData("g1")>>)

BodySmall ==
    Body(<<CharacterData("A")>>, <<>>, <<ChapterData("ch1", None)>>, <<>>, <<>>, <<>>,
         <<WritingStyleData("S1", "p2"), WritingStyleData("S2", "p1")>>, <<>>)

\* a project block without any field
EmptyProject == [description |-> None]

ValidProjects ==
    {[title |-> "T1", user_id |-> "u1"], [title |-> "T1"]}

ValidDocs ==
    {Document(SUPPORTED_VERSION, p, b) : p \in ValidProjects, b \in {BodyEmpty, BodyFull, BodySmall}}
    \cup {Document("0.9.0", [title |-> "T2", user_id |-> "u2"], BodyFull)}

InvalidDocs ==
    {Document("", [title |-> "T1", user_id |-> "u1"], BodyFull),
     Without(Document(SUPPORTED_VERSION, [title |-> "T1"], BodyFull), "project"),
     Without(Document("", [title |-> "T1"], BodyFull), "project"),
     Document(SUPPORTED_VERSION, [title |-> "", user_id |-> "u1"], BodyFull),
     Document(SUPPORTED_VERSION, [user_id |-> "u1"], BodySmall)}

MalformedDocs ==
    {Document(SUPPORTED_VERSION, NotADict, BodyFull)}

Docs == ValidDocs \cup InvalidDocs \cup MalformedDocs

----------------------------------------------------------------------------
(* export_project *)

\* the lists a query without ORDER BY may return: every enumeration of the rows
Orderings(rows) ==
    {q \in [1..Cardinality(rows) -> rows] : \A i, j \in DOMAIN q : i # j => q[i] # q[j]}

\* the lists a query with ORDER BY key may return (ties in any order)
OrderedBy(rows, key) ==
    {q \in Orderings(rows) : \A i, j \in DOMAIN q : i < j => q[i][key] <= q[j][key]}

\* the lists a query with ORDER BY key DESC may return
OrderedByDesc(rows, key) ==
    {q \in Orderings(rows) : \A i, j \in DOMAIN q : i < j => q[i][key] >= q[j][key]}

\* None in a numeric field of a document or column of a row
NoNumber == -1

\* x or default, for a number or None (0 and None are falsy)
OrDefault(x, default) == IF x = 0 \/ x = NoNumber THEN default ELSE x

\* _export_chapters: outline_title through the id -> title mapping of the
\* outlines the chapters reference
_export_chapters(st, chapters) ==
    LET ExportOne(ch) ==
            [title |-> ch.title,
             chapter_number |-> ch.chapter_number,
             outline_title |->
                 IF ch.outline_id # NoId /\ HasRow(st["outlines"], ch.outline_id)
                 THEN RowById(st["outlines"], ch.outline_id).title
                 ELSE None]
    IN  [i \in DOMAIN chapters |-> ExportOne(chapters[i])]

\* _export_characters
_export_characters(characters) ==
    [i \in DOMAIN characters |->
        [name |-> characters[i].name,
         is_organization |-> characters[i].is_organization]]

\* _export_outlines
_export_outlines(outlines) ==
    [i \in DOMAIN outlines |->
        [title |-> outlines[i].title, order_index |-> outlines[i].order_index]]

\* variant of ExportRelationship: source and target are swapped
ExportRelationshipSwapped(st, rel) ==
    [source_name |-> RowById(st["characters"], rel.character_to_id).name,
     target_name |-> RowById(st["characters"], rel.character_from_id).name,
     intimacy_level |-> OrDefault(rel.intimacy_level, 50)]

\* RelationshipExportData(source_name=char_from.name, target_name=char_to.name, ...)
ExportRelationship(st, rel) ==
    [source_name |-> RowById(st["characters"], rel.character_from_id).name,
     target_name |-> RowById(st["characters"], rel.character_to_id).name,
     intimacy_level |-> OrDefault(rel.intimacy_level, 50)]

\* _export_relationships: inner join on the source character; a relationship
\* whose target character is not found is dropped
_export_relationships(st, relationships) ==
    LET Keep(rel) == HasRow(st["characters"], rel.character_to_id)
        kept == SelectSeq(relationships, Keep)
    IN  [i \in DOMAIN kept |-> ExportRelationship(st, kept[i])]

\* _export_organizations: parent name through the parent's character row
_export_organizations(st, organizations) ==
    LET ParentName(org) ==
            IF /\ org.parent_org_id # NoId
               /\ HasRow(st["organizations"], org.parent_org_id)
               /\ HasRow(st["characters"],
                         RowById(st["organizations"], org.parent_org_id).character_id)
            THEN RowById(st["characters"],
                         RowById(st["organizations"], org.parent_org_id).character_id).name
            ELSE None
    IN  [i \in DOMAIN organizations |->
            [character_name |-> RowById(st["characters"], organizations[i].character_id).name,
             parent_org_name |-> ParentName(organizations[i]),
             power_level |-> OrDefault(organizations[i].power_level, 50),
             member_count |-> OrDefault(organizations[i].member_count, 0)]]

\* _export_organization_members: a member whose character is not found is dropped
_export_organization_members(st, members) ==
    LET Keep(m) == HasRow(st["characters"], m.character_id)
        Map(m) ==
            [organization_name |->
                 RowById(st["characters"],
                         RowById(st["organizations"], m.organization_id).character_id).name,
             character_name |-> RowById(st["characters"], m.character_id).name,
             rank |-> OrDefault(m.rank, 0),
             loyalty |-> OrDefault(m.loyalty, 50),
             contribution |-> OrDefault(m.contribution, 0)]
        kept == SelectSeq(members, Keep)
    IN  [i \in DOMAIN kept |-> Map(kept[i])]

\* _export_writing_styles
_export_writing_styles(styles) ==
    [i \in DOMAIN styles |->
        [name |-> styles[i].name,
         style_type |-> styles[i].style_type,
         preset_id |-> styles[i].preset_id,
         description |-> styles[i].description,
         prompt_content |-> styles[i].prompt_content,
         order_index |-> OrDefault(styles[i].order_index, 0)]]

\* .limit(100) of _export_generation_history
HISTORY_LIMIT == 100

\* _export_generation_history: newest first, at most HISTORY_LIMIT records; the
\* chapter title through an outer join
_export_generation_history(st, histories) ==
    LET n == IF Len(histories) < HISTORY_LIMIT THEN Len(histories) ELSE HISTORY_LIMIT
    IN  [i \in 1..n |->
            [prompt |-> histories[i].prompt,
             chapter_title |->
                 IF HasRow(st["chapters"], histories[i].chapter_id)
                 THEN RowById(st["chapters"], histories[i].chapter_id).title
                 ELSE None]]

\* the rows the queries of export_project select
ProjectCharacters(st, project_id) == {r \in st["characters"] : r.project_id = project_id}
ProjectOutlines(st, project_id) == {r \in st["outlines"] : r.project_id = project_id}
ProjectChapters(st, project_id) == {r \in st["chapters"] : r.project_id = project_id}
ProjectRelationships(st, project_id) ==
    {r \in st["relationships"] :
        r.project_id = project_id /\ HasRow(st["characters"], r.character_from_id)}
ProjectOrganizations(st, project_id) ==
    {r \in st["organizations"] :
        r.project_id = project_id /\ HasRow(st["characters"], r.character_id)}
ProjectMembers(st, project_id) ==
    {m \in st["members"] :
        /\ HasRow(st["organizations"], m.organization_id)
        /\ RowById(st["organizations"], m.organization_id) \in ProjectOrganizations(st, project_id)}
UserStyles(st, uid) == {w \in st["styles"] : w.user_id = uid}
ProjectHistories(st, project_id) ==
    {h \in st["generation_history"] : h.project_id = project_id}

\* export_project(project_id, db, include_generation_history, include_writing_styles):
\* raises ValueError when the project does not exist; reads only.  It runs in a
\* session of its own and sees committed rows only, so an export between two
\* steps of an import equals one before or after that step: it is taken
\* between import calls.
export_project(project_id, include_generation_history, include_writing_styles) ==
    /\ \A s \in Sessions : pc[s] \in {"idle", "done"}
    /\ IF ~HasRow(db["projects"], project_id)
       THEN export_data' = [project_id |-> project_id, raised |-> TRUE, document |-> NoData]
       ELSE LET project == RowById(db["projects"], project_id)
                project_data ==
                    [title |-> project.title, genre |-> project.genre,
                     status |-> project.status, outline_mode |-> project.outline_mode,
                     current_words |-> project.current_words,
                     user_id |-> project.user_id]
            IN  \E chapters \in OrderedBy(ProjectChapters(db, project_id), "chapter_number"),
                   characters \in Orderings(ProjectCharacters(db, project_id)),
                   outlines \in OrderedBy(ProjectOutlines(db, project_id), "order_index"),
                   relationships \in Orderings(ProjectRelationships(db, project_id)),
                   organizations \in Orderings(ProjectOrganizations(db, project_id)),
                   members \in Orderings(ProjectMembers(db, project_id)),
                   styles \in OrderedBy(UserStyles(db, project.user_id), "order_index"),
                   histories \in OrderedByDesc(ProjectHistories(db, project_id), "created_at") :
                    export_data' =
                        [project_id |-> project_id,
                         raised |-> FALSE,
                         document |->
                             Document(SUPPORTED_VERSION, project_data,
                                 Body(_export_characters(characters),
                                      _export_outlines(outlines),
                                      _export_chapters(db, chapters),
                                      _export_relationships(db, relationships),
                                      _export_organizations(db, organizations),
                                      _export_organization_members(db, members),
                                      IF include_writing_styles
                                      THEN _export_writing_styles(styles) ELSE <<>>,
                                      IF include_generation_history
                                      THEN _export_generation_history(db, histories)
                                      ELSE <<>>))]
    /\ UNCHANGED <<promptVars, db, tx, autoflush, validation, pc, call, calls, data, user_id, new_project,
                   char_mapping, outline_mapping, org_mapping, statistics, warnings,
                   result, log, history>>

----------------------------------------------------------------------------
(* Specifications *)

\* sequential imports of arbitrary documents, any storage call may raise
Next ==
    \E s \in {"s1"} :
        \/ \E d \in Docs, u \in Users : import_project(s, d, u)
        \/ Step(s)
        \/ RaiseException(s)

Spec == Init /\ [][Next]_vars

\* sequences of length 0, 1 and 2 over a set
UpToTwo(S) == {<<>>} \cup {<<a>> : a \in S} \cup {<<a, b>> : a \in S, b \in S}

\* Relationship documents: every array of at most two characters named A or B
\* (a name may repeat) with every array of at most two relationships between
\* the names A and B, so that either endpoint may be missing from the characters
RelNames == {"A", "B"}
RelDocs ==
    {Document(SUPPORTED_VERSION, [title |-> "T1", user_id |-> "u1"],
         Body(cs, <<>>, <<>>, rs, <<>>, <<>>, <<>>, <<>>)) :
        cs \in UpToTwo({CharacterData(n) : n \in RelNames}),
        rs \in UpToTwo({RelationshipData(a, b) : a \in RelNames, b \in RelNames})}

\* a first import of a relationship document, then round trips: a committed
\* project is exported and the exported document is imported again
NextRel ==
    \/ \E d \in RelDocs : calls = 0 /\ import_project("s1", d, "u1")
    \/ \E u \in Users :
          /\ export_data.document # NoData
          /\ import_project("s1", export_data.document, u)
    \/ \E project_id \in {p.id : p \in db["projects"]} \cup {NoId} :
          export_project(project_id, FALSE, TRUE)
    \/ Step("s1")

SpecRel == Init /\ [][NextRel]_vars

\* Organization documents: characters A, B, C, and the organizations A, B, C
\* in every order, under several parent assignments (a chain, a reversed
\* chain, a star, self and mutual parents, an unknown parent)
Permutations3(a, b, c) ==
    {<<a, b, c>>, <<a, c, b>>, <<b, a, c>>, <<b, c, a>>, <<c, a, b>>, <<c, b, a>>}

OrgParents ==
    {[A |-> None, B |-> "A", C |-> "B"],
     [A |-> "B", B |-> "C", C |-> None],
     [A |-> None, B |-> "A", C |-> "A"],
     [A |-> "A", B |-> "C", C |-> "B"],
     [A |-> None, B |-> "X", C |-> None]}

OrgDocs ==
    {Document(SUPPORTED_VERSION, [title |-> "T1", user_id |-> "u1"],
         Body(<<CharacterData("A"), CharacterData("B"), CharacterData("C")>>,
              <<>>, <<>>, <<>>, orgs, <<>>, <<>>, <<>>)) :
        orgs \in UNION {Permutations3(OrganizationData("A", f.A),
                                      OrganizationData("B", f.B),
                                      OrganizationData("C", f.C)) : f \in OrgParents}}

\* sequential imports of organization documents
NextOrg ==
    \/ \E d \in OrgDocs : import_project("s1", d, "u1")
    \/ Step("s1")

SpecOrg == Init /\ [][NextOrg]_vars

\* Writing-style documents: every array of at most two styles out of S1 (with
\* two different contents) and S2
StyleDocs ==
    {Document(SUPPORTED_VERSION, [title |-> "T1", user_id |-> "u1"],
         Body(<<>>, <<>>, <<>>, <<>>, <<>>, <<>>, ws, <<>>)) :
        ws \in UpToTwo({WritingStyleData("S1", "p1"), WritingStyleData("S1", "p2"),
                        WritingStyleData("S2", "p1")})}

\* sequential imports of writing-style documents by two users
NextStyle ==
    \/ \E d \in StyleDocs, u \in Users : import_project("s1", d, u)
    \/ Step("s1")

SpecStyle == Init /\ [][NextStyle]_vars

\* a dict restricted to some of its keys
Restrict(d, ks) == [k \in (DOMAIN d) \cap ks |-> d[k]]

\* Validation documents: the version absent, empty, supported or different; the
\* project block absent, without title, with an empty title or with a title;
\* every array empty, some arrays absent, or arrays with elements
ValidationDocs ==
    LET versions == {"", SUPPORTED_VERSION, "0.9.0"}
        projects == {EmptyProject, [title |-> ""], [title |-> "T1"]}
        keysets == {StatKeySet, {"characters", "generation_history"}}
        full == {Restrict(Document(v, p, b), {"version", "export_time", "project"} \cup ks) :
                    v \in versions, p \in projects,
                    b \in {BodyEmpty, BodyFull}, ks \in keysets}
    IN  full \cup {Without(d, "version") : d \in {x \in full : x.version = ""}}
             \cup {Without(d, "project") : d \in {x \in full : x.project = EmptyProject}}

\* sequential imports of validation documents
NextValidate ==
    \/ \E d \in ValidationDocs : import_project("s1", d, "u1")
    \/ Step("s1")

SpecValidate == Init /\ [][NextValidate]_vars

----------------------------------------------------------------------------
(* Prompt service (backend/app/services/prompt_service.py) *)

\* A string is [chars |-> its code points]; a text whose content is not looked
\* at (an instruction of the genre table, a literal part of a template, a
\* template of the registry) is [text |-> its name]; None is NoValue.
Str(chars) == [chars |-> chars]
EmptyStr == Str(<<>>)
NoValue == [none |-> TRUE]

\* str.lower(), character by character: the ASCII capitals have a lower case,
\* the other characters of the genres (ASCII small letters, CJK) are their own
LowerChar(c) == IF c \in 65..90 THEN c + 32 ELSE c
Lower(chars) == [i \in DOMAIN chars |-> LowerChar(chars[i])]

\* `keyword in text`
IsSubstring(keyword, text) ==
    \E j \in 0..(Len(text) - Len(keyword)) : SubSeq(text, j + 1, j + Len(keyword)) = keyword

\* the genre table, in the order of the dict literal; keywords are written as
\* the code points of their characters (68, 78, 68 is DND)
GENRE_STRATEGIES ==
    <<
      [key |-> "history",
       keywords |->
          <<<<21382, 21490>>, <<26435, 35851>>, <<26550, 31354, 21382, 21490>>,
            <<31359, 36234>>, <<19977, 22269>>, <<22823, 31206>>, <<22823, 26126>>>>,
       instruction |-> [text |-> "instruction of history"]],
      [key |-> "scifi",
       keywords |->
          <<<<31185, 24187>>, <<26143, 38469>>, <<36187, 21338, 26379, 20811>>,
            <<26411, 19990>>, <<26426, 30002>>, <<26410, 26469>>>>,
       instruction |-> [text |-> "instruction of scifi"]],
      [key |-> "supernatural",
       keywords |->
          <<<<28789, 24322>>, <<24778, 24730>>, <<24656, 24598>>,
            <<31070, 31192, 22797, 33487>>, <<20811, 33487, 40065>>,
            <<24618, 35848>>>>,
       instruction |-> [text |-> "instruction of supernatural"]],
      [key |-> "suspense",
       keywords |->
          <<<<24748, 30097>>, <<21009, 20390>>, <<25512, 29702>>, <<20390, 25506>>,
            <<29359, 32618>>>>,
       instruction |-> [text |-> "instruction of suspense"]],
      [key |-> "western_fantasy",
       keywords |->
          <<<<35199, 24187>>, <<22855, 24187>>, <<68, 78, 68>>, <<39764, 27861>>,
            <<40857, 19982, 22320, 19979, 22478>>, <<39046, 20027>>>>,
       instruction |-> [text |-> "instruction of western_fantasy"]],
      [key |-> "eastern_fantasy",
       keywords |->
          <<<<29572, 24187>>, <<20185, 20384>>, <<20462, 30495>>, <<39640, 27494>>,
            <<27946, 33618>>, <<19996, 26041, 29572, 24187>>>>,
       instruction |-> [text |-> "instruction of eastern_fantasy"]],
      [key |-> "urban",
       keywords |->
          <<<<37117, 24066>>, <<35328, 24773>>, <<32844, 22330>>, <<29616, 23454>>,
            <<29983, 27963>>, <<23089, 20048>>, <<37325, 29983>>, <<31070, 35946>>,
            <<26657, 33457>>>>,
       instruction |-> [text |-> "instruction of urban"]]
    >>

\* the entries of the table with a keyword that occurs in the text
MatchingEntries(text) ==
    {i \in DOMAIN GENRE_STRATEGIES :
        \E k \in DOMAIN GENRE_STRATEGIES[i].keywords :
            IsSubstring(GENRE_STRATEGIES[i].keywords[k], text)}

\* the first entry of a set in table order (the for loop returns at the first hit)
FirstEntry(entries) == CHOOSE i \in entries : \A j \in entries : i <= j

\* _get_genre_strategy(genre): the keywords are looked for, as written, in the
\* lowercased genre
_get_genre_strategy(genre) ==
    IF genre = NoValue \/ genre = EmptyStr THEN EmptyStr
    ELSE LET genre_lower == Lower(genre.chars)
             matching == MatchingEntries(genre_lower)
         IN  IF matching = {} THEN EmptyStr
             ELSE GENRE_STRATEGIES[FirstEntry(matching)].instruction

\* variant of InjectGenreStrategy: the strategy is derived whenever a genre is given
InjectGenreStrategyAlways(kwargs) ==
    IF "genre" \in DOMAIN kwargs
    THEN [k \in (DOMAIN kwargs) \cup {"genre_strategy"} |->
             IF k = "genre_strategy" THEN _get_genre_strategy(kwargs.genre) ELSE kwargs[k]]
    ELSE kwargs

\* kwargs after `if "genre" in kwargs and "genre_strategy" not in kwargs`
InjectGenreStrategy(kwargs) ==
    IF "genre" \in DOMAIN kwargs /\ "genre_strategy" \notin DOMAIN kwargs
    THEN [k \in (DOMAIN kwargs) \cup {"genre_strategy"} |->
             IF k = "genre_strategy" THEN _get_genre_strategy(kwargs.genre) ELSE kwargs[k]]
    ELSE kwargs

\* a template is a sequence of parts: literal texts [text |-> ...] and
\* replacement fields [field |-> name]
IsField(part) == "field" \in DOMAIN part

\* variant of Format: a field without value is left as it is
RECURSIVE FormatLenient(_, _)
FormatLenient(template, kwargs) ==
    IF template = <<>> THEN [raised |-> FALSE, key |-> "", text |-> <<>>]
    ELSE LET part == Head(template)
             rest == FormatLenient(Tail(template), kwargs)
         IN  [raised |-> FALSE, key |-> "",
              text |-> <<IF IsField(part) /\ part.field \in DOMAIN kwargs
                         THEN kwargs[part.field] ELSE part>> \o rest.text]

\* template.format(**kwargs): the fields are replaced from left to right, the
\* first field without value raises KeyError(field); values without field
\* are ignored
RECURSIVE Format(_, _)
Format(template, kwargs) ==
    IF template = <<>> THEN [raised |-> FALSE, key |-> "", text |-> <<>>]
    ELSE LET part == Head(template)
         IN  IF IsField(part) /\ part.field \notin DOMAIN kwargs
             THEN [raised |-> TRUE, key |-> part.field, text |-> <<>>]
             ELSE LET rest == Format(Tail(template), kwargs)
                  IN  IF rest.raised THEN rest
                      ELSE [raised |-> FALSE, key |-> "",
                            text |-> <<IF IsField(part) THEN kwargs[part.field] ELSE part>>
                                        \o rest.text]

MSG_MISSING_PARAMETER == "missing required parameter: "

\* the arguments of a format_prompt call that has not run yet
PromptRequest(template, kwargs) ==
    [called |-> FALSE, requested |-> TRUE, template |-> template, kwargs |-> kwargs]

\* format_prompt(template, **kwargs): the genre strategy is injected, then the
\* template is formatted; KeyError becomes ValueError naming the key
format_prompt ==
    /\ formatted # NoPrompt /\ ~formatted.called
    /\ LET kwargs == InjectGenreStrategy(formatted.kwargs)
           r == Format(formatted.template, kwargs)
       IN  formatted' =
               [called |-> TRUE,
                template |-> formatted.template,
                given |-> formatted.kwargs,
                kwargs |-> kwargs,
                raised |-> r.raised,
                error |-> IF r.raised THEN <<MSG_MISSING_PARAMETER, r.key>> ELSE <<>>,
                text |-> r.text]
    /\ UNCHANGED <<importVars, prompt_templates, lookup>>

\* Genres: every keyword of the table in every letter case, alone, between
\* other characters, and two in a row; no keyword; the empty string; None
UpperChar(c) == IF c \in 97..122 THEN c - 32 ELSE c
CaseVariants(chars) ==
    {v \in [DOMAIN chars -> {LowerChar(chars[i]) : i \in DOMAIN chars}
                                \cup {UpperChar(chars[i]) : i \in DOMAIN chars}] :
        \A i \in DOMAIN chars : v[i] \in {LowerChar(chars[i]), UpperChar(chars[i])}}
Keywords ==
    UNION {{GENRE_STRATEGIES[i].keywords[k] : k \in DOMAIN GENRE_STRATEGIES[i].keywords} :
              i \in DOMAIN GENRE_STRATEGIES}
KeywordVariants == UNION {CaseVariants(kw) : kw \in Keywords}
OtherText == <<120, 121>>
Genres ==
    {NoValue, EmptyStr, Str(OtherText)}
    \cup {Str(v) : v \in KeywordVariants}
    \cup {Str(OtherText \o v \o OtherText) : v \in KeywordVariants}
    \cup {Str(v \o w) : v \in KeywordVariants, w \in KeywordVariants}

\* Parameter maps: with and without genre, genre_strategy (an explicit text or
\* the empty string), theme and title
ExplicitStrategies == {[text |-> "explicit strategy"], EmptyStr}
ParamKeySets ==
    {{"genre"}, {"genre", "theme"}, {"genre", "genre_strategy"},
     {"genre", "theme", "title"}, {}, {"theme"}, {"theme", "title"},
     {"genre_strategy", "theme"}}
ParamMaps ==
    {Restrict([genre |-> g,
               genre_strategy |-> e,
               theme |-> Str(<<116>>),
               title |-> Str(<<84>>)], ks) :
        g \in Genres, e \in ExplicitStrategies, ks \in ParamKeySets}

\* Templates: without field, with the fields theme and genre_strategy, with
\* title and theme, with genre and genre_strategy
Templates ==
    {<<[text |-> "intro"]>>,
     <<[text |-> "intro"], [field |-> "theme"], [text |-> "middle"],
       [field |-> "genre_strategy"]>>,
     <<[field |-> "title"], [field |-> "theme"]>>,
     <<[field |-> "genre"], [text |-> "middle"], [field |-> "genre_strategy"]>>}

\* one format_prompt call with arbitrary arguments
InitPrompt ==
    /\ InitImport
    /\ formatted \in {PromptRequest(t, k) : t \in Templates, k \in ParamMaps}
    /\ prompt_templates = {}
    /\ lookup = NoLookup

NextPrompt == format_prompt

SpecPrompt == InitPrompt /\ [][NextPrompt]_vars

\* the built-in templates: class attributes of PromptService looked up by name
TemplateKeys == {"WORLD_BUILDING", "MCP_TOOL_TEST"}

\* getattr(cls, template_key, None)
BuiltinTemplate(template_key) ==
    IF template_key \in TemplateKeys THEN [text |-> template_key] ELSE NoValue

\* variant of ActiveOverrides: is_active is not looked at
AnyOverrides(store, uid, template_key) ==
    {t \in store : t.user_id = uid /\ t.template_key = template_key}

\* select(PromptTemplate).where(user_id == ..., template_key == ..., is_active == True)
ActiveOverrides(store, uid, template_key) ==
    {t \in store : t.user_id = uid /\ t.template_key = template_key /\ t.is_active}

\* get_template: the user's active override, else the built-in template;
\* scalar_one_or_none() raises when the query finds more than one row
get_template(store, template_key, uid) ==
    LET found == ActiveOverrides(store, uid, template_key)
    IN  IF Cardinality(found) > 1 THEN [raised |-> TRUE, content |-> NoValue]
        ELSE IF found # {}
        THEN [raised |-> FALSE, content |-> (CHOOSE t \in found : TRUE).template_content]
        ELSE [raised |-> FALSE, content |-> BuiltinTemplate(template_key)]

\* the arguments of a get_template_with_fallback call that has not run yet;
\* has_db: a database session is supplied
LookupRequest(template_key, uid, has_db) ==
    [called |-> FALSE, requested |-> TRUE, template_key |-> template_key,
     user_id |-> uid, has_db |-> has_db]

\* get_template_with_fallback(template_key, user_id, db)
get_template_with_fallback ==
    /\ lookup # NoLookup /\ ~lookup.called
    /\ LET r == IF Falsy(lookup.user_id) \/ ~lookup.has_db
                THEN [raised |-> FALSE, content |-> BuiltinTemplate(lookup.template_key)]
                ELSE get_template(prompt_templates, lookup.template_key, lookup.user_id)
       IN  lookup' = [called |-> TRUE, template_key |-> lookup.template_key,
                      user_id |-> lookup.user_id, has_db |-> lookup.has_db,
                      raised |-> r.raised, content |-> r.content]
    /\ UNCHANGED <<importVars, formatted, prompt_templates>>

\* Override rows of two users for two keys, active or not, with two contents;
\* the stores hold at most two of them
TemplateRows ==
    {[user_id |-> u, template_key |-> k, is_active |-> a,
      template_content |-> [text |-> c]] :
        u \in Users, k \in TemplateKeys, a \in BOOLEAN, c \in {"custom 1", "custom 2"}}
TemplateStores ==
    {{}} \cup {{r1, r2} : r1 \in TemplateRows, r2 \in TemplateRows}

\* one template lookup with arbitrary arguments on an arbitrary store
InitTemplate ==
    /\ InitImport
    /\ formatted = NoPrompt
    /\ prompt_templates \in TemplateStores
    /\ lookup \in {LookupRequest(k, u, b) :
                        k \in TemplateKeys \cup {"NOT_A_TEMPLATE"},
                        u \in Users \cup {None, ""},
                        b \in BOOLEAN}

NextTemplate == get_template_with_fallback

SpecTemplate == InitTemplate /\ [][NextTemplate]_vars

\* Stores of the application as export_project receives them.  The rows of a
\* project are also written by the parts of the application that edit
\* characters and relationships; a relationship row carries project_id,
\* character_from_id and character_to_id as independent columns and neither
\* query of _export_relationships compares the project of a character with
\* the project of the relationship.  Two committed projects: P1 with the
\* characters A and B, P2 with the character C.
CrossProjectIds == {<<1, 1>>, <<2, 1>>}
CrossProjects ==
    {NewProjectRow(<<1, 1>>, "u1", [title |-> "T1"]),
     NewProjectRow(<<2, 1>>, "u2", [title |-> "T2"])}
CrossCharacters ==
    {[id |-> <<1, 2>>, project_id |-> <<1, 1>>, name |-> "A", is_organization |-> FALSE],
     [id |-> <<1, 3>>, project_id |-> <<1, 1>>, name |-> "B", is_organization |-> FALSE],
     [id |-> <<2, 2>>, project_id |-> <<2, 1>>, name |-> "C", is_organization |-> FALSE]}

\* every relationship row of either project between two character identifiers,
\* the target possibly the identifier of a deleted character
CrossRelationships ==
    {[id |-> <<3, 1>>, project_id |-> p, character_from_id |-> a.id,
      character_to_id |-> b, intimacy_level |-> 50] :
        p \in CrossProjectIds, a \in CrossCharacters,
        b \in {c.id : c \in CrossCharacters} \cup {<<1, 9>>}}

CrossStores ==
    {[EmptyStore EXCEPT !["projects"] = CrossProjects,
                        !["characters"] = CrossCharacters,
                        !["relationships"] = rs] :
        rs \in {{}} \cup {{r, [q EXCEPT !.id = <<3, 2>>]} :
                             r \in CrossRelationships, q \in CrossRelationships}}

InitCross ==
    /\ db \in CrossStores
    /\ tx = [s \in Sessions |-> EmptyStore]
    /\ autoflush \in BOOLEAN
    /\ pc = [s \in Sessions |-> "idle"]
    /\ call = [s \in Sessions |-> 0]
    /\ calls = 0
    /\ data = [s \in Sessions |-> NoData]
    /\ user_id = [s \in Sessions |-> None]
    /\ new_project = [s \in Sessions |-> NoId]
    /\ char_mapping = [s \in Sessions |-> EmptyDict]
    /\ outline_mapping = [s \in Sessions |-> EmptyDict]
    /\ org_mapping = [s \in Sessions |-> EmptyDict]
    /\ validation = [s \in Sessions |-> NoValidation]
    /\ statistics = [s \in Sessions |-> EmptyDict]
    /\ warnings = [s \in Sessions |-> <<>>]
    /\ result = [s \in Sessions |-> NoResult]
    /\ log = [s \in Sessions |-> <<>>]
    /\ export_data = NoExport
    /\ history = <<>>
    /\ formatted = NoPrompt
    /\ prompt_templates = {}
    /\ lookup = NoLookup

\* one export of either project, or of a project that does not exist
NextCross ==
    \E project_id \in CrossProjectIds \cup {<<9, 1>>},
       include_generation_history \in BOOLEAN, include_writing_styles \in BOOLEAN :
        export_project(project_id, include_generation_history, include_writing_styles)

SpecCross == InitCross /\ [][NextCross]_vars

\* Chapter documents: at most two outlines titled O1, O2 or with the empty
\* title (a title may repeat), and the chapters ch1, ch2 whose outline_title is
\* one of these titles, null, or not given at all
OutlineTitles == {"O1", "O2", ""}
ChapterOutlineTitles(title) ==
    {ChapterData(title, t) : t \in OutlineTitles \cup {None}}
        \cup {Without(ChapterData(title, None), "outline_title")}
ChapterDocs ==
    {Document(SUPPORTED_VERSION, [title |-> "T1", user_id |-> "u1"],
         Body(<<>>, os, chs, <<>>, <<>>, <<>>, <<>>, <<>>)) :
        os \in UpToTwo({OutlineData(t) : t \in OutlineTitles}),
        chs \in {<<>>} \cup {<<a>> : a \in ChapterOutlineTitles("ch1")}
                 \cup {<<a, b>> : a \in ChapterOutlineTitles("ch1"),
                                  b \in ChapterOutlineTitles("ch2")}}

\* one import of a chapter document, any storage call may raise
NextChapter ==
    \/ \E d \in ChapterDocs : calls = 0 /\ import_project("s1", d, "u1")
    \/ Step("s1")
    \/ RaiseException("s1")

SpecChapter == Init /\ [][NextChapter]_vars

\* Member documents: at most two characters named A or B, at most two
\* organizations owned by A or B (so that an organization's character may be
\* missing), and at most two members, each of an organization A or B and a
\* character A or B
MemberNames == {"A", "B"}
MemberDocs ==
    {Document(SUPPORTED_VERSION, [title |-> "T1", user_id |-> "u1"],
         Body(cs, <<>>, <<>>, <<>>, os, ms, <<>>, <<>>)) :
        cs \in UpToTwo({CharacterData(n) : n \in MemberNames}),
        os \in UpToTwo({OrganizationData(n, None) : n \in MemberNames}),
        ms \in UpToTwo({OrganizationMemberData(o, c) : o \in MemberNames, c \in MemberNames})}

\* one import of a member document without storage errors
NextMember ==
    \/ \E d \in MemberDocs : calls = 0 /\ import_project("s1", d, "u1")
    \/ Step("s1")

SpecMember == Init /\ [][NextMember]_vars

\* Concurrent imports: two requests, each with a session of its own, import
\* for the same user a document with the style S1 (and possibly S2).  A step
\* of one call may run between any two steps of the other; a session sees the
\* committed rows and its own pending rows
RaceDocs ==
    {Document(SUPPORTED_VERSION, [title |-> "T1", user_id |-> "u1"],
         Body(<<>>, <<>>, <<>>, <<>>, <<>>, <<>>, ws, <<>>)) :
        ws \in {<<WritingStyleData("S1", "p1")>>,
                <<WritingStyleData("S1", "p2"), WritingStyleData("S2", "p1")>>}}

NextRace ==
    \E s \in Sessions :
        \/ \E d \in RaceDocs : call[s] = 0 /\ import_project(s, d, "u1")
        \/ Step(s)

SpecRace == Init /\ [][NextRace]_vars

\* Numeric documents: the characters A and B, the relationship A -> B, the
\* organization A and its member B; each numeric field of one of the three
\* elements is absent, null, 0, 1 or 100
NumberValues == {0, 1, 100}
Numbers(keys) == UNION {[ks -> NumberValues \cup {NoNumber}] : ks \in SUBSET keys}
NumberDoc(rel_numbers, org_numbers, member_numbers) ==
    Document(SUPPORTED_VERSION, [title |-> "T1", user_id |-> "u1"],
        Body(<<CharacterData("A"), CharacterData("B")>>, <<>>, <<>>,
             <<RelationshipData("A", "B") @@ rel_numbers>>,
             <<OrganizationData("A", None) @@ org_numbers>>,
             <<OrganizationMemberData("A", "B") @@ member_numbers>>,
             <<>>, <<>>))
NumberDocs ==
    {NumberDoc(n, <<>>, <<>>) : n \in Numbers({"intimacy_level"})}
    \cup {NumberDoc(<<>>, n, <<>>) : n \in Numbers({"power_level", "member_count"})}
    \cup {NumberDoc(<<>>, <<>>, n) : n \in Numbers({"rank", "loyalty", "contribution"})}

\* one import of a numeric document, then exports of the committed project
NextNumber ==
    \/ \E d \in NumberDocs : calls = 0 /\ import_project("s1", d, "u1")
    \/ Step("s1")
    \/ \E project_id \in {p.id : p \in db["projects"]} :
          export_project(project_id, FALSE, FALSE)

SpecNumber == Init /\ [][NextNumber]_vars

----------------------------------------------------------------------------
(* Claims *)

\* the call of session s has committed
Committed(c) == \E i \in DOMAIN history : history[i].call = c

\* rows minted by the current call of session s, pending or committed
CallRows(s, table) == {r \in db[table] \cup tx[s][table] : r.id[1] = call[s]}

\* msg occurs in the token sequence text
Contains(text, msg) ==
    \E j \in 1..(Len(text) - Len(msg) + 1) : SubSeq(text, j, j + Len(msg) - 1) = msg

\* C1: import_project is atomic: the committed store holds rows minted by a
\* call only if that call ran every step and committed; after an exception at
\* any step (or an invalid document) no row of the attempt is committed.
C1_ImportAtomic ==
    /\ \A c \in 1..calls : RowsOfCall(db, c) # {} => Committed(c)
    /\ \A s \in Sessions :
         (call[s] > 0 /\ ~(pc[s] = "done" /\ result[s].success))
            => RowsOfCall(db, call[s]) = {}

\* an exception in the organizations step of a document with characters,
\* outlines, chapters and relationships, after an earlier import committed
C1_Witness ==
    \E s \in Sessions :
        /\ pc[s] = "done" /\ ~result[s].success
        /\ "relationships" \in DictKeys(result[s].statistics)
        /\ "organizations" \notin DictKeys(result[s].statistics)
        /\ DictGet(result[s].statistics, "characters", 0) > 0
        /\ DictGet(result[s].statistics, "chapters", 0) > 0
        /\ db["projects"] # {}
        /\ RowsOfCall(db, call[s]) = {}

\* C2: every call of import_project that does not commit (invalid document,
\* malformed document, exception at any step) ends by returning a result with
\* success = false and no project identifier.
C2_FailureIsResult ==
    \A s \in Sessions :
        pc[s] = "done" =>
            /\ result[s].returned
            /\ (~Committed(call[s]) \/ ValidationRaises(data[s])
                    \/ ~validate_import_data(data[s]).valid)
                 => (~result[s].success /\ result[s].project_id = NoId)

\* the commit itself raised: the project row had been created, the result has no id
C2_Witness ==
    \E s \in Sessions :
        /\ pc[s] = "done" /\ result[s].returned /\ ~result[s].success
        /\ "writing_styles" \in DictKeys(result[s].statistics)
        /\ new_project[s] # NoId
        /\ result[s].project_id = NoId

\* C3: a call whose document fails validation changes neither the committed
\* rows nor any session's pending rows, issues no storage operation, and
\* returns a failure whose message contains every error of the validator.
C3_InvalidNoWrites ==
    [][\A s \in Sessions :
          (/\ call'[s] # call[s]
           /\ ~ValidationRaises(data'[s])
           /\ validate_import_data(data'[s]).errors # <<>>)
          => (/\ db' = db
              /\ tx' = tx
              /\ log'[s] = <<>>
              /\ pc'[s] = "done"
              /\ ~result'[s].success
              /\ Head(result'[s].message) = MSG_VALIDATION_FAILED
              /\ \A i \in DOMAIN validate_import_data(data'[s]).errors :
                    Contains(result'[s].message, validate_import_data(data'[s]).errors[i]))]_vars

\* a document with two validator errors and non-empty arrays was rejected
\* while the store held committed rows
C3_Witness ==
    \E s \in Sessions :
        /\ pc[s] = "done" /\ result[s].returned
        /\ Len(validate_import_data(data[s]).errors) = 2
        /\ Len(_get(data[s], "characters", <<>>)) > 0
        /\ Contains(result[s].message, ERR_NO_VERSION)
        /\ Contains(result[s].message, ERR_NO_PROJECT)
        /\ db["projects"] # {}
        /\ log[s] = <<>>

\* C9: a successful import adds exactly one Project row, with an identifier no
\* committed project has, and no step ever changes or removes a committed
\* Project, Chapter, Character, Outline, Relationship, Organization or
\* OrganizationMember row.
C9_NewProjectOnly ==
    [][/\ \A t \in Tables \ {"styles"} : db[t] \subseteq db'[t]
       /\ \A s \in Sessions :
            (pc[s] = "commit" /\ pc'[s] = "done" /\ result'[s].success)
            => LET created == db'["projects"] \ db["projects"]
               IN  /\ Cardinality(created) = 1
                   /\ \A p \in created :
                        /\ p.id = result'[s].project_id
                        /\ ~HasRow(db["projects"], p.id)
                   /\ \A t \in Tables \ {"styles", "projects"} :
                        \A r \in db'[t] \ db[t] : r.id[1] = call[s]]_vars

\* two committed projects with the same title, owner and characters
C9_Witness ==
    \E p, q \in db["projects"] :
        /\ p.id # q.id
        /\ p.title = q.title /\ p.user_id = q.user_id
        /\ {c.name : c \in ProjectCharacters(db, p.id)} = {"A", "B"}
        /\ {c.name : c \in ProjectCharacters(db, q.id)} = {"A", "B"}

\* C10: the project row of a call is owned by the user_id argument whatever
\* the document says, and so are the writing styles the call creates.
C10_OwnedByCaller ==
    \A s \in Sessions :
        /\ \A p \in db["projects"] \cup tx[s]["projects"] :
              p.id[1] = call[s] => p.user_id = user_id[s]
        /\ \A w \in db["styles"] \cup tx[s]["styles"] :
              w.id[1] = call[s] => w.user_id = user_id[s]

\* a committed import by u2 of a document exported by u1, with a style created
C10_Witness ==
    \E s \in Sessions :
        /\ pc[s] = "done" /\ result[s].success
        /\ user_id[s] = "u2"
        /\ _get(data[s].project, "user_id", None) = "u1"
        /\ \E p \in db["projects"] : p.id = result[s].project_id /\ p.user_id = "u2"
        /\ \E w \in db["styles"] : w.id[1] = call[s] /\ w.user_id = "u2"

\* elements of a sequence
Range(q) == {q[i] : i \in DOMAIN q}

\* the relationships step of the current call of s has run and not been rolled back
AfterRelationships(s) ==
    \/ pc[s] \in {"organizations", "members", "styles", "commit"}
    \/ pc[s] = "done" /\ result[s].success

\* names of the characters listed in a document
DocCharacterNames(d) == {_get(c, "name", None) : c \in Range(_get(d, "characters", <<>>))}

\* positions of the relationships of a document whose two names are listed
ResolvableRelationships(d) ==
    {i \in DOMAIN _get(d, "relationships", <<>>) :
        /\ _get(d.relationships[i], "source_name", None) \in DocCharacterNames(d)
        /\ _get(d.relationships[i], "target_name", None) \in DocCharacterNames(d)}

\* (source name, target name) of a relationship row
RelationshipNames(characters, r) ==
    <<RowById(characters, r.character_from_id).name,
      RowById(characters, r.character_to_id).name>>

\* C4: after the relationships step the call has created exactly one row per
\* relationship of the document whose source_name and target_name are both
\* names of listed characters (same names, same multiplicity), none for the
\* others, and the relationships count is the number of rows created.
C4_RelationshipIffBothResolve ==
    \A s \in Sessions :
        AfterRelationships(s) =>
            LET d == data[s]
                rows == CallRows(s, "relationships")
                characters == db["characters"] \cup tx[s]["characters"]
                ok == ResolvableRelationships(d)
            IN  /\ Cardinality(rows) = Cardinality(ok)
                /\ DictGet(statistics[s], "relationships", 0 - 1) = Cardinality(ok)
                /\ \A r \in rows :
                     /\ HasRow(characters, r.character_from_id)
                     /\ HasRow(characters, r.character_to_id)
                     /\ Cardinality({q \in rows :
                            RelationshipNames(characters, q) = RelationshipNames(characters, r)})
                        = Cardinality({i \in ok :
                            <<d.relationships[i].source_name, d.relationships[i].target_name>>
                                = RelationshipNames(characters, r)})
                /\ \A i \in ok :
                     \E r \in rows :
                        RelationshipNames(characters, r)
                            = <<d.relationships[i].source_name, d.relationships[i].target_name>>

\* a committed import of two relationships of which one has a target that is
\* not a listed character: one row, count 1
C4_Witness ==
    \E s \in Sessions :
        /\ pc[s] = "done" /\ result[s].success
        /\ Len(data[s].relationships) = 2
        /\ Cardinality(ResolvableRelationships(data[s])) = 1
        /\ \E i \in DOMAIN data[s].relationships :
              /\ data[s].relationships[i].source_name \in DocCharacterNames(data[s])
              /\ data[s].relationships[i].target_name \notin DocCharacterNames(data[s])
        /\ DictGet(result[s].statistics, "relationships", 0) = 1
        /\ Cardinality(CallRows(s, "relationships")) = 1

\* relationship rows of a project, and the bag of their endpoint names
RelationshipsOf(st, project_id) == {r \in st["relationships"] : r.project_id = project_id}
AllEndpointsExist(st, project_id) ==
    \A r \in RelationshipsOf(st, project_id) :
        HasRow(st["characters"], r.character_from_id) /\ HasRow(st["characters"], r.character_to_id)
RelationshipNameBag(st, project_id) ==
    LET names == {c.name : c \in st["characters"]}
    IN  [pr \in names \X names |->
            Cardinality({r \in RelationshipsOf(st, project_id) :
                            RelationshipNames(st["characters"], r) = pr})]

\* C5: when a committed import was given the document returned by an export of
\* an earlier project whose relationships all have existing endpoints, the new
\* project has as many relationships as the exported one and the same bag of
\* (source name, target name) pairs.
C5_RoundTripRelationships ==
    \A s \in Sessions :
        (/\ pc[s] = "done" /\ result[s].success
         /\ ~export_data.raised
         /\ export_data.project_id # NoId
         /\ export_data.project_id[1] < call[s]
         /\ data[s] = export_data.document
         /\ AllEndpointsExist(db, export_data.project_id))
        => /\ result[s].project_id # export_data.project_id
           /\ Cardinality(RelationshipsOf(db, result[s].project_id))
                = Cardinality(RelationshipsOf(db, export_data.project_id))
           /\ RelationshipNameBag(db, result[s].project_id)
                = RelationshipNameBag(db, export_data.project_id)

\* a project with the relationships A -> B and A -> A was exported and imported again
C5_Witness ==
    \E s \in Sessions :
        /\ pc[s] = "done" /\ result[s].success
        /\ ~export_data.raised
        /\ export_data.project_id[1] < call[s]
        /\ export_data.project_id # NoId
        /\ data[s] = export_data.document
        /\ Cardinality(RelationshipsOf(db, export_data.project_id)) = 2
        /\ Cardinality(RelationshipsOf(db, result[s].project_id)) = 2
        /\ \E r1, r2 \in RelationshipsOf(db, result[s].project_id) :
              /\ RelationshipNames(db["characters"], r1) = <<"A", "B">>
              /\ RelationshipNames(db["characters"], r2) = <<"A", "A">>

\* the organizations step of the current call of s has run and not been rolled back
AfterOrganizations(s) ==
    \/ pc[s] \in {"members", "styles", "commit"}
    \/ pc[s] = "done" /\ result[s].success

\* the organizations of a document have distinct character names, all listed
DistinctResolvableOrganizations(d) ==
    LET orgs == _get(d, "organizations", <<>>)
    IN  /\ \A i, j \in DOMAIN orgs :
              i # j => orgs[i].character_name # orgs[j].character_name
        /\ \A i \in DOMAIN orgs : orgs[i].character_name \in DocCharacterNames(d)

\* organization rows of the current call whose character has the given name
OrganizationsNamed(s, name) ==
    {o \in CallRows(s, "organizations") :
        \E c \in db["characters"] \cup tx[s]["characters"] :
            c.id = o.character_id /\ c.name = name}

\* C6: for organizations with distinct, resolvable character names, in whatever
\* order the document lists them, every organization is created once and an
\* organization whose parent_org_name names an organization of the document
\* has the row created for that name as its parent.
C6_ParentOrderIndependent ==
    \A s \in Sessions :
        (AfterOrganizations(s) /\ DistinctResolvableOrganizations(data[s])) =>
            LET orgs == _get(data[s], "organizations", <<>>)
            IN  \A i \in DOMAIN orgs :
                    /\ Cardinality(OrganizationsNamed(s, orgs[i].character_name)) = 1
                    /\ \A j \in DOMAIN orgs :
                          _get(orgs[i], "parent_org_name", None) = orgs[j].character_name
                          => \A o \in OrganizationsNamed(s, orgs[i].character_name) :
                                \E par \in OrganizationsNamed(s, orgs[j].character_name) :
                                    o.parent_org_id = par.id

\* the document lists [C, B, A] with B under A and C under B, and the committed
\* rows form the chain C -> B -> A
C6_Witness ==
    \E s \in Sessions :
        /\ pc[s] = "done" /\ result[s].success
        /\ data[s].organizations =
              <<OrganizationData("C", "B"), OrganizationData("B", "A"),
                OrganizationData("A", None)>>
        /\ \E a \in OrganizationsNamed(s, "A"), b \in OrganizationsNamed(s, "B"),
              c \in OrganizationsNamed(s, "C") :
              c.parent_org_id = b.id /\ b.parent_org_id = a.id /\ a.parent_org_id = NoId

\* names of the writing styles of a document, and whether they are distinct
DocStyleNames(d) == {_get(w, "name", None) : w \in Range(_get(d, "writing_styles", <<>>))}
DistinctStyleNames(d) == Cardinality(DocStyleNames(d)) = Len(_get(d, "writing_styles", <<>>))

\* the user had none of the document's styles before call c
NonePreExisting(d, u, c) ==
    ~\E w \in db["styles"] : w.user_id = u /\ w.name \in DocStyleNames(d) /\ w.id[1] < c

\* C7: when the same document (distinct style names, none of them a style of
\* the user beforehand) is imported twice for the same user, one call after
\* the other, the first import counts all its styles and the second counts 0;
\* a user whose imports all had distinct style names never has two styles of
\* one name.
C7_StyleDedupIdempotent ==
    /\ \A i, j \in DOMAIN history :
          (/\ i < j
           /\ history[i].data = history[j].data
           /\ history[i].user_id = history[j].user_id
           /\ DistinctStyleNames(history[i].data)
           /\ NonePreExisting(history[i].data, history[i].user_id, history[i].call))
          => /\ DictGet(history[i].statistics, "writing_styles", 0 - 1)
                  = Len(history[i].data.writing_styles)
             /\ DictGet(history[j].statistics, "writing_styles", 0 - 1) = 0
    /\ \A u \in Users :
          (\A i \in DOMAIN history :
               history[i].user_id = u => DistinctStyleNames(history[i].data))
          => \A w1, w2 \in db["styles"] :
                (w1.user_id = u /\ w2.user_id = u /\ w1.name = w2.name) => w1 = w2

\* a document with two styles was imported twice for one user: counts 2 and 0
C7_Witness ==
    \E i, j \in DOMAIN history :
        /\ i < j
        /\ history[i].data = history[j].data
        /\ history[i].user_id = history[j].user_id
        /\ Len(history[i].data.writing_styles) = 2
        /\ DistinctStyleNames(history[i].data)
        /\ DictGet(history[i].statistics, "writing_styles", 0) = 2
        /\ DictGet(history[j].statistics, "writing_styles", 0 - 1) = 0
        /\ Cardinality({w \in db["styles"] : w.user_id = history[i].user_id}) = 2

\* C8: no step changes or removes a committed writing style, and a committing
\* import adds no style under a (user, name) for which the user already had a
\* committed style whose name is in the document.
C8_ExistingStyleUntouched ==
    [][/\ db["styles"] \subseteq db'["styles"]
       /\ \A s \in Sessions :
            (pc[s] = "commit" /\ pc'[s] = "done" /\ result'[s].success)
            => \A e \in db["styles"] :
                  (e.user_id = user_id[s] /\ e.name \in DocStyleNames(data[s]))
                  => {w \in db'["styles"] : w.user_id = e.user_id /\ w.name = e.name}
                        = {w \in db["styles"] : w.user_id = e.user_id /\ w.name = e.name}]_vars

\* u1 had S1 with content p1; a later committed import for u1 of a document
\* with S1 of content p2 left that single row as it was
C8_Witness ==
    \E s \in Sessions :
        /\ pc[s] = "done" /\ result[s].success
        /\ user_id[s] = "u1"
        /\ \E w \in Range(data[s].writing_styles) :
              w.name = "S1" /\ w.prompt_content = "p2"
        /\ \E e \in db["styles"] :
              /\ e.id[1] < call[s] /\ e.user_id = "u1" /\ e.name = "S1"
              /\ e.prompt_content = "p1"
              /\ {w \in db["styles"] : w.user_id = "u1" /\ w.name = "S1"} = {e}

\* the document has a non-empty version tag
HasVersion(d) == "version" \in DOMAIN d /\ d.version \notin {"", None}
\* the document has a project block with a non-empty title
HasTitle(d) ==
    /\ "project" \in DOMAIN d
    /\ "title" \in DOMAIN d.project
    /\ d.project.title \notin {"", None}

\* C11: the validation result is valid exactly when the document has a
\* non-empty version, a project block and a non-empty project title; each of
\* the three failures contributes its own error, once, and nothing else is an
\* error (a different version, no chapters, no characters only warn).
C11_ValidIffThreeChecks ==
    \A s \in Sessions :
        validation[s] # NoValidation =>
            LET d == data[s]
                v == validation[s]
            IN  /\ v.valid <=> (HasVersion(d) /\ "project" \in DOMAIN d /\ HasTitle(d))
                /\ (ERR_NO_VERSION \in Range(v.errors)) <=> ~HasVersion(d)
                /\ (ERR_NO_PROJECT \in Range(v.errors)) <=> "project" \notin DOMAIN d
                /\ (ERR_NO_TITLE \in Range(v.errors))
                      <=> ("project" \in DOMAIN d /\ ~HasTitle(d))
                /\ Range(v.errors) \subseteq {ERR_NO_VERSION, ERR_NO_PROJECT, ERR_NO_TITLE}
                /\ Cardinality(Range(v.errors)) = Len(v.errors)

\* a document of another version without chapters and characters validated as
\* valid with three warnings, after a document with two errors was rejected
C11_Witness ==
    \E s \in Sessions :
        /\ validation[s] # NoValidation
        /\ validation[s].valid
        /\ data[s].version = "0.9.0"
        /\ Len(validation[s].warnings) = 3
        /\ calls = 2

\* C12: the statistics of validation hold, for every document, the length of
\* each of the eight arrays (0 for an absent array), also when the document is
\* invalid; a document without project key is invalid with an error.
C12_StatisticsAlways ==
    \A s \in Sessions :
        validation[s] # NoValidation =>
            LET d == data[s]
                v == validation[s]
            IN  /\ DictKeys(v.statistics) = StatKeySet
                /\ \A k \in StatKeySet :
                      DictGet(v.statistics, k, 0 - 1)
                        = (IF k \in DOMAIN d THEN Cardinality(DOMAIN d[k]) ELSE 0)
                /\ "project" \notin DOMAIN d => (~v.valid /\ v.errors # <<>>)

\* a document without project key, with two characters and without chapters
\* array: invalid, characters 2, chapters 0
C12_Witness ==
    \E s \in Sessions :
        /\ validation[s] # NoValidation
        /\ "project" \notin DOMAIN data[s]
        /\ "chapters" \notin DOMAIN data[s]
        /\ ~validation[s].valid
        /\ DictGet(validation[s].statistics, "characters", 0) = 2
        /\ DictGet(validation[s].statistics, "generation_history", 0) = 1
        /\ DictGet(validation[s].statistics, "chapters", 1) = 0

\* C13: a document with a non-empty version other than the supported one, a
\* project block and a title is not rejected: the call proceeds to the import
\* steps, and when it has returned (no storage call raising) the result is a
\* success with the new project committed and the version-mismatch warning of
\* validation among its warnings.
C13_VersionMismatchWarns ==
    \A s \in Sessions :
        (/\ validation[s] # NoValidation
         /\ HasVersion(data[s]) /\ data[s].version # SUPPORTED_VERSION
         /\ HasTitle(data[s]))
        => LET w == <<"version mismatch", data[s].version, "1.0.0">>
           IN  /\ pc[s] # "idle"
               /\ w \in Range(validation[s].warnings)
               /\ w \in Range(warnings[s])
               /\ pc[s] = "done" =>
                     /\ result[s].success
                     /\ HasRow(db["projects"], result[s].project_id)
                     /\ result[s].project_id[1] = call[s]
                     /\ w \in Range(result[s].warnings)

\* a document of version 0.9.0 with characters was imported: success, with
\* the version warning
C13_Witness ==
    \E s \in Sessions :
        /\ pc[s] = "done" /\ result[s].success
        /\ data[s].version = "0.9.0"
        /\ DictGet(result[s].statistics, "characters", 0) = 2
        /\ <<"version mismatch", "0.9.0", "1.0.0">> \in Range(result[s].warnings)
        /\ \E p \in db["projects"] : p.id = result[s].project_id

\* the table holding the rows of a statistics category
CategoryTable ==
    {[k |-> "characters", v |-> "characters"], [k |-> "outlines", v |-> "outlines"],
     [k |-> "chapters", v |-> "chapters"], [k |-> "relationships", v |-> "relationships"],
     [k |-> "organizations", v |-> "organizations"],
     [k |-> "organization_members", v |-> "members"],
     [k |-> "writing_styles", v |-> "styles"]}

\* C14: on a successful import every entry of the returned statistics is the
\* number of rows of its category the call created, for every document,
\* including documents in which two characters share a name.
C14_StatisticsCountRows ==
    \A s \in Sessions :
        (pc[s] = "done" /\ result[s].success) =>
            \A e \in CategoryTable :
                DictGet(result[s].statistics, e.k, 0 - 1) = Cardinality(CallRows(s, e.v))

\* C14, characters only: the reported number of characters is the number of
\* distinct character names of the document, not the number of rows created
C14_CharactersCountNames ==
    \A s \in Sessions :
        (pc[s] = "done" /\ result[s].success) =>
            /\ DictGet(result[s].statistics, "characters", 0 - 1)
                  = Cardinality(DocCharacterNames(data[s]))
            /\ Cardinality(CallRows(s, "characters")) = Len(_get(data[s], "characters", <<>>))

\* two characters named A were imported: two rows, reported count 1
C14_Witness ==
    \E s \in Sessions :
        /\ pc[s] = "done" /\ result[s].success
        /\ data[s].characters = <<CharacterData("A"), CharacterData("A")>>
        /\ Cardinality(CallRows(s, "characters")) = 2
        /\ DictGet(result[s].statistics, "characters", 0) = 1

\* the statistics entries written by the steps that come before a position
CompletedBefore(position) ==
    CASE position = "project" -> {}
      [] position = "characters" -> {}
      [] position = "outlines" -> {"characters"}
      [] position = "chapters" -> {"characters", "outlines"}
      [] position = "relationships" -> {"characters", "outlines", "chapters"}
      [] position = "organizations" ->
            {"characters", "outlines", "chapters", "relationships"}
      [] position = "members" ->
            {"characters", "outlines", "chapters", "relationships", "organizations"}
      [] position = "styles" ->
            {"characters", "outlines", "chapters", "relationships", "organizations",
             "organization_members"}
      [] position = "commit" ->
            {"characters", "outlines", "chapters", "relationships", "organizations",
             "organization_members", "writing_styles"}

\* C15: when a step of the import raises, the failure result's statistics have
\* exactly the entries of the steps completed before it, with the values those
\* steps recorded, and no row of the call is committed or left pending.
C15_PartialStatistics ==
    [][\A s \in Sessions :
          (pc[s] \in RaisingSteps /\ pc'[s] = "done" /\ ~result'[s].success)
          => /\ DictKeys(result'[s].statistics) = CompletedBefore(pc[s])
             /\ result'[s].statistics = statistics[s]
             /\ RowsOfCall(db', call[s]) = {}
             /\ tx'[s] = EmptyStore
             /\ db' = db]_vars

\* the organizations step raised: the failure reports 2 characters, 1 outline,
\* 2 chapters and 1 relationship, no organizations, and nothing is stored
C15_Witness ==
    \E s \in Sessions :
        /\ pc[s] = "done" /\ result[s].returned /\ ~result[s].success
        /\ result[s].statistics =
              {[k |-> "characters", v |-> 2], [k |-> "outlines", v |-> 1],
               [k |-> "chapters", v |-> 2], [k |-> "relationships", v |-> 1]}
        /\ RowsOfCall(db, call[s]) = {}
        /\ tx[s] = EmptyStore

\* C20: no step of import_project adds a GenerationHistory row, pending or
\* committed, whatever the generation_history array of the document holds, and
\* a success result has no generation_history entry in its statistics.
C20_HistoryNotImported ==
    [][/\ db'["generation_history"] = db["generation_history"]
       /\ \A s \in Sessions :
            /\ tx'[s]["generation_history"] \subseteq tx[s]["generation_history"]
            /\ result'[s].success =>
                  "generation_history" \notin DictKeys(result'[s].statistics)]_vars

\* a document with one generation history record was imported with success:
\* validation counted the record, the result does not, and no row exists
C20_Witness ==
    \E s \in Sessions :
        /\ pc[s] = "done" /\ result[s].success
        /\ Len(data[s].generation_history) = 1
        /\ DictGet(validation[s].statistics, "generation_history", 0) = 1
        /\ DictKeys(result[s].statistics) = StatKeySet \ {"generation_history"}
        /\ db["chapters"] # {}
        /\ db["generation_history"] = {}

\* the entries of the genre table with a keyword that occurs in the text when
\* letter case is ignored on both sides
CaseInsensitiveEntries(chars) ==
    {i \in DOMAIN GENRE_STRATEGIES :
        \E k \in DOMAIN GENRE_STRATEGIES[i].keywords :
            IsSubstring(Lower(GENRE_STRATEGIES[i].keywords[k]), Lower(chars))}

\* format_prompt ran with a genre string and without an explicit genre_strategy
StrategyInjected ==
    /\ formatted.called
    /\ "genre" \in DOMAIN formatted.given
    /\ "genre_strategy" \notin DOMAIN formatted.given
    /\ formatted.given.genre # NoValue

\* C16: when the genre contains a keyword of the table in any letter case,
\* format_prompt without explicit genre_strategy injects the (non-empty)
\* instruction of an entry having such a keyword.
C16_CaseInsensitiveMatch ==
    (StrategyInjected /\ CaseInsensitiveEntries(formatted.given.genre.chars) # {})
    => /\ formatted.kwargs.genre_strategy # EmptyStr
       /\ \E i \in CaseInsensitiveEntries(formatted.given.genre.chars) :
             formatted.kwargs.genre_strategy = GENRE_STRATEGIES[i].instruction

\* C16, keywords without capital letters: when the genre contains, in any
\* letter case, a keyword that is written without capitals, the instruction of
\* an entry with such a keyword is injected
C16_LowercaseKeywordsMatch ==
    LET lowercase ==
            {i \in DOMAIN GENRE_STRATEGIES :
                \E k \in DOMAIN GENRE_STRATEGIES[i].keywords :
                    /\ GENRE_STRATEGIES[i].keywords[k] = Lower(GENRE_STRATEGIES[i].keywords[k])
                    /\ IsSubstring(GENRE_STRATEGIES[i].keywords[k],
                                   Lower(formatted.given.genre.chars))}
    IN  (StrategyInjected /\ lowercase # {})
        => \E i \in lowercase :
              formatted.kwargs.genre_strategy = GENRE_STRATEGIES[i].instruction

\* the genre DND (68, 78, 68) got the empty strategy
C16_Witness ==
    /\ StrategyInjected
    /\ formatted.given.genre = Str(<<68, 78, 68>>)
    /\ formatted.kwargs.genre_strategy = EmptyStr
    /\ ~formatted.raised
    /\ \E i \in DOMAIN formatted.template : formatted.template[i] = [field |-> "genre_strategy"]

\* format_prompt ran with a genre (a string or None) and without an explicit
\* genre_strategy
GenreGiven ==
    /\ formatted.called
    /\ "genre" \in DOMAIN formatted.given
    /\ "genre_strategy" \notin DOMAIN formatted.given

\* the genre has no keyword of the table, whatever the letter case
NoKeyword(genre) == genre = NoValue \/ CaseInsensitiveEntries(genre.chars) = {}

\* the outcome of a format_prompt call in which genre_strategy had a value
StrategyNotMissing ==
    formatted.raised =>
        /\ formatted.error[2] # "genre_strategy"
        /\ formatted.error[2] \notin DOMAIN formatted.kwargs

\* C17: the injected genre_strategy is the instruction of the first entry, in
\* table order, that has a keyword contained in the genre (letter case
\* ignored); for a genre without keyword, an empty genre or None it is the
\* empty string, and the injection raises nothing.
C17_FirstMatchInTableOrder ==
    GenreGiven =>
        /\ StrategyNotMissing
        /\ IF NoKeyword(formatted.given.genre)
           THEN formatted.kwargs.genre_strategy = EmptyStr
           ELSE formatted.kwargs.genre_strategy =
                    GENRE_STRATEGIES[FirstEntry(
                        CaseInsensitiveEntries(formatted.given.genre.chars))].instruction

\* C17, keywords as the code looks for them: the injected genre_strategy is
\* the instruction of the first entry, in table order, that has a keyword
\* contained as written in the lowercased genre, and the empty string when
\* there is none
C17_FirstMatchAsWritten ==
    GenreGiven =>
        LET genre == formatted.given.genre
            entries == IF genre = NoValue THEN {} ELSE MatchingEntries(Lower(genre.chars))
        IN  /\ StrategyNotMissing
            /\ IF entries = {}
               THEN formatted.kwargs.genre_strategy = EmptyStr
               ELSE /\ \A i \in entries : FirstEntry(entries) <= i
                    /\ formatted.kwargs.genre_strategy =
                          GENRE_STRATEGIES[FirstEntry(entries)].instruction

\* the genre DND followed by a keyword of urban (37325, 29983) got the
\* instruction of urban, the last entry, not that of western_fantasy
C17_Witness ==
    /\ GenreGiven
    /\ formatted.given.genre = Str(<<68, 78, 68, 37325, 29983>>)
    /\ CaseInsensitiveEntries(formatted.given.genre.chars) = {5, 7}
    /\ formatted.kwargs.genre_strategy = GENRE_STRATEGIES[7].instruction
    /\ GENRE_STRATEGIES[5].key = "western_fantasy"

\* positions of the fields of the template that have no value after the
\* injection of genre_strategy
MissingFields ==
    {i \in DOMAIN formatted.template :
        /\ IsField(formatted.template[i])
        /\ formatted.template[i].field \notin DOMAIN formatted.kwargs}

\* C18: when a field of the template has no value in the parameter map (after
\* the injection of genre_strategy), format_prompt raises the missing-parameter
\* error naming a missing key (the first one in the template) and returns no
\* text, not even the substituted beginning; otherwise it returns the template
\* with every field replaced by its value.
C18_StrictFormat ==
    formatted.called =>
        IF MissingFields # {}
        THEN /\ formatted.raised
             /\ formatted.text = <<>>
             /\ formatted.error[1] = MSG_MISSING_PARAMETER
             /\ \E i \in MissingFields :
                   /\ formatted.error[2] = formatted.template[i].field
                   /\ \A j \in MissingFields : i <= j
        ELSE /\ ~formatted.raised
             /\ formatted.error = <<>>
             /\ Len(formatted.text) = Len(formatted.template)
             /\ \A i \in DOMAIN formatted.template :
                   /\ ~IsField(formatted.text[i])
                   /\ IsField(formatted.template[i]) =>
                         formatted.text[i] = formatted.kwargs[formatted.template[i].field]

\* a template with the fields theme and genre_strategy was formatted with a
\* genre only: genre_strategy was injected, theme is missing, the call raised
\* for theme although the text before the field could have been produced
C18_Witness ==
    /\ formatted.called
    /\ DOMAIN formatted.given = {"genre"}
    /\ Len(formatted.template) = 4
    /\ ~IsField(formatted.template[1])
    /\ formatted.template[2] = [field |-> "theme"]
    /\ formatted.template[4] = [field |-> "genre_strategy"]
    /\ formatted.kwargs.genre_strategy = GENRE_STRATEGIES[1].instruction
    /\ formatted.raised
    /\ formatted.error = <<MSG_MISSING_PARAMETER, "theme">>
    /\ formatted.text = <<>>

\* C19: a lookup with a user and a store returns the content of the user's
\* active override for the key when the store holds one; it returns the
\* built-in template of the key when the override is inactive, of another user
\* or key, or absent, and when no user or no store is supplied; the store is
\* left as it was.
C19_TemplateResolution ==
    [][/\ prompt_templates' = prompt_templates
       /\ lookup'.called =>
            LET own == {t \in prompt_templates :
                           /\ t.user_id = lookup'.user_id
                           /\ t.template_key = lookup'.template_key
                           /\ t.is_active = TRUE}
                supplied == lookup'.user_id \notin {None, ""} /\ lookup'.has_db
            IN  /\ (supplied /\ Cardinality(own) = 1) =>
                      /\ ~lookup'.raised
                      /\ \A t \in own : lookup'.content = t.template_content
                /\ (~supplied \/ own = {}) =>
                      /\ ~lookup'.raised
                      /\ lookup'.content =
                            (IF lookup'.template_key \in TemplateKeys
                             THEN [text |-> lookup'.template_key] ELSE NoValue)]_vars

\* u1 has an inactive override of the key and u2 an active one: the lookup of
\* u1 returned the built-in template
C19_Witness ==
    /\ lookup.called /\ lookup.has_db /\ ~lookup.raised
    /\ lookup.user_id = "u1" /\ lookup.template_key = "WORLD_BUILDING"
    /\ \E t1, t2 \in prompt_templates :
          /\ t1.user_id = "u1" /\ t1.template_key = "WORLD_BUILDING" /\ ~t1.is_active
          /\ t2.user_id = "u2" /\ t2.template_key = "WORLD_BUILDING" /\ t2.is_active
    /\ lookup.content = [text |-> "WORLD_BUILDING"]

\* the names of the characters array of an exported document
ExportedCharacterNames(document) ==
    {document.characters[i].name : i \in DOMAIN document.characters}

\* the exported document of the last export, when it produced one
Exported == export_data # NoExport /\ ~export_data.raised

\* C21: in every exported document the source_name and the target_name of
\* every exported relationship are names of characters of the same document's
\* characters array, also when a relationship row of the project points to a
\* character row of another project
C21_ExportedNamesListed ==
    Exported =>
        \A i \in DOMAIN export_data.document.relationships :
            /\ export_data.document.relationships[i].source_name
                   \in ExportedCharacterNames(export_data.document)
            /\ export_data.document.relationships[i].target_name
                   \in ExportedCharacterNames(export_data.document)

\* an export of project P1 whose store holds a relationship of P1 from its own
\* character A to the character C of project P2, exported with the name C
C21_Witness ==
    /\ Exported
    /\ export_data.project_id = <<1, 1>>
    /\ \E r \in db["relationships"] :
           /\ r.project_id = <<1, 1>>
           /\ r.character_from_id = <<1, 2>>
           /\ r.character_to_id = <<2, 2>>
    /\ \E i \in DOMAIN export_data.document.relationships :
           /\ export_data.document.relationships[i].source_name = "A"
           /\ export_data.document.relationships[i].target_name = "C"
    /\ "C" \notin ExportedCharacterNames(export_data.document)

\* every occurrence of a token of `first` in a log precedes every occurrence
\* of a token of `then`
Precedes(l, first, then) ==
    \A i, j \in DOMAIN l : l[i] \in first /\ l[j] \in then => i < j

\* the storage operations that create a descendant row of the project
DescendantOps ==
    {"add Character", "add Outline", "add Chapter", "add CharacterRelationship",
     "add Organization", "set parent_org_id", "add OrganizationMember",
     "add WritingStyle"}

\* the rows created after the characters and the outlines
DependentOps ==
    {"add Chapter", "add CharacterRelationship", "add Organization",
     "add OrganizationMember"}

\* C22: import steps run in a strict order within one call: the project is
\* created before any descendant; every character and every outline before the
\* first chapter, relationship, organization or member; every organization row
\* before any parent reference is assigned and before the first member; the
\* commit comes after all of these
C22_StrictOrder ==
    \A s \in Sessions :
        /\ Precedes(log[s], {"add Project"}, DescendantOps)
        /\ (\E i \in DOMAIN log[s] : log[s][i] \in DescendantOps)
               => "add Project" \in Range(log[s])
        /\ Precedes(log[s], {"add Character", "add Outline"}, DependentOps)
        /\ Precedes(log[s], {"add Organization"}, {"set parent_org_id"})
        /\ Precedes(log[s], {"add Organization"}, {"add OrganizationMember"})
        /\ Precedes(log[s], {"add Project"} \cup DescendantOps, {"commit"})
        /\ \A i \in DOMAIN log[s] : log[s][i] = "commit" => i = Len(log[s])

\* a committed import whose log holds every kind of operation
C22_Witness ==
    /\ pc["s1"] = "done"
    /\ result["s1"].success
    /\ \A op \in {"add Project", "commit"} \cup DescendantOps : op \in Range(log["s1"])

\* the chapters step of the current call of s has run and not been rolled back
AfterChapters(s) ==
    \/ pc[s] \in {"relationships", "organizations", "members", "styles", "commit"}
    \/ pc[s] = "done" /\ result[s].success

\* the outline rows of the current call of s that carry a title
OutlinesTitled(s, title) == {o \in CallRows(s, "outlines") : o.title = title}

\* every chapter of the document of s has a row, which references an outline
\* created by the call for the chapter's outline_title when that title is not
\* one of `absent` and some outline carries it, and no outline otherwise
ChaptersCreated(s, absent) ==
    LET chs == _get(data[s], "chapters", <<>>)
        Linked(title) == title \notin absent /\ OutlinesTitled(s, title) # {}
    IN  /\ Cardinality(CallRows(s, "chapters")) = Len(chs)
        /\ DictGet(statistics[s], "chapters", -1) = Len(chs)
        /\ \A i \in DOMAIN chs :
              \E r \in CallRows(s, "chapters") :
                  /\ r.title = chs[i].title
                  /\ IF Linked(_get(chs[i], "outline_title", None))
                     THEN r.outline_id \in
                              {o.id : o \in OutlinesTitled(s, chs[i].outline_title)}
                     ELSE r.outline_id = NoId

\* C23: every chapter of the document is created on import and counted; a
\* chapter whose outline_title is the title of an outline of the document
\* references that newly created outline, a chapter whose outline_title is
\* absent or matches no outline has an empty outline reference
C23_ChapterOutlineResolved ==
    \A s \in Sessions :
        AfterChapters(s) =>
            ChaptersCreated(s, {None})

\* C23, as the code behaves: the same with an empty outline_title counted as
\* absent
C23_NonEmptyOutlineResolved ==
    \A s \in Sessions :
        AfterChapters(s) =>
            ChaptersCreated(s, {None, ""})

\* a committed import of an outline with the empty title and a chapter whose
\* outline_title is the empty string: the chapter is created without reference
C23_Witness ==
    /\ pc["s1"] = "done"
    /\ result["s1"].success
    /\ OutlinesTitled("s1", "") # {}
    /\ \E i \in DOMAIN data["s1"].chapters :
           /\ "outline_title" \in DOMAIN data["s1"].chapters[i]
           /\ data["s1"].chapters[i].outline_title = ""
    /\ \A r \in CallRows("s1", "chapters") : r.outline_id = NoId

\* the members step of the current call of s has run and not been rolled back
AfterMembers(s) ==
    \/ pc[s] \in {"styles", "commit"}
    \/ pc[s] = "done" /\ result[s].success

\* member rows of the current call whose organization is owned by a character
\* named organization_name and whose character is named character_name
MembersNamed(s, organization_name, character_name) ==
    {m \in CallRows(s, "members") :
        /\ \E o \in OrganizationsNamed(s, organization_name) : o.id = m.organization_id
        /\ \E c \in CallRows(s, "characters") :
               c.id = m.character_id /\ c.name = character_name}

\* positions of the members of a document with the given two names
MemberPositions(d, organization_name, character_name) ==
    {i \in DOMAIN _get(d, "organization_members", <<>>) :
        /\ d.organization_members[i].organization_name = organization_name
        /\ d.organization_members[i].character_name = character_name}

\* C24: an organization is created iff its character_name names a character of
\* the document, and a member is created iff its organization_name names an
\* organization created in this import and its character_name names a
\* character of the document; all other members are skipped, the skipped ones
\* are not counted and the import succeeds
C24_MemberIffBothResolve ==
    \A s \in Sessions :
        /\ AfterMembers(s) =>
              /\ \A n \in MemberNames :
                    OrganizationsNamed(s, n) # {}
                        <=> /\ n \in DocCharacterNames(data[s])
                            /\ \E o \in Range(data[s].organizations) : o.character_name = n
              /\ \A o \in MemberNames, c \in MemberNames :
                    Cardinality(MembersNamed(s, o, c)) =
                        IF OrganizationsNamed(s, o) # {} /\ c \in DocCharacterNames(data[s])
                        THEN Cardinality(MemberPositions(data[s], o, c))
                        ELSE 0
              /\ Cardinality(CallRows(s, "members")) =
                     DictGet(statistics[s], "organization_members", -1)
              /\ CallRows(s, "members") =
                     UNION {MembersNamed(s, o, c) : o \in MemberNames, c \in MemberNames}
        /\ pc[s] = "done" => result[s].success

\* a committed import in which the organization B was skipped (no character
\* B), its member was skipped too and the member of organization A was created
C24_Witness ==
    /\ pc["s1"] = "done"
    /\ result["s1"].success
    /\ "B" \notin DocCharacterNames(data["s1"])
    /\ \E o \in Range(data["s1"].organizations) : o.character_name = "B"
    /\ MemberPositions(data["s1"], "B", "A") # {}
    /\ MemberPositions(data["s1"], "A", "A") # {}
    /\ Cardinality(CallRows("s1", "members")) = 1
    /\ MembersNamed("s1", "A", "A") # {}

\* format_prompt ran with a genre and an explicit genre_strategy
StrategyGiven ==
    /\ formatted.called
    /\ {"genre", "genre_strategy"} \subseteq DOMAIN formatted.given

\* C25: when the caller supplies genre_strategy together with genre,
\* format_prompt formats with the caller's parameters unchanged: every
\* genre_strategy field of the template receives the caller's value and no
\* strategy is derived from the genre table, whatever the genre
C25_ExplicitStrategyKept ==
    StrategyGiven =>
        /\ formatted.kwargs = formatted.given
        /\ ~formatted.raised =>
              \A i \in DOMAIN formatted.template :
                  formatted.template[i] = [field |-> "genre_strategy"]
                      => formatted.text[i] = formatted.given.genre_strategy

\* a call with a genre for which the table has an instruction and with an
\* explicit genre_strategy: the text carries the explicit value
C25_Witness ==
    /\ StrategyGiven
    /\ ~formatted.raised
    /\ _get_genre_strategy(formatted.given.genre) \notin {EmptyStr, formatted.given.genre_strategy}
    /\ \E i \in DOMAIN formatted.template :
           /\ formatted.template[i] = [field |-> "genre_strategy"]
           /\ formatted.text[i] = formatted.given.genre_strategy

\* committed rows of a table minted by call c
CommittedRows(c, table) == {r \in db[table] : r.id[1] = c}

\* a reference of a row of call c is empty or the identifier of a committed
\* row of the table that call c created for its own project
ReferenceWithinImport(c, table, id) ==
    \/ id = NoId
    \/ \E x \in CommittedRows(c, table), p \in CommittedRows(c, "projects") :
           x.id = id /\ x.project_id = p.id

\* C26: after a successful import every reference held by a row the import
\* created (chapter -> outline, relationship -> source and target character,
\* organization -> owning character and parent organization, member ->
\* organization and character) is empty or points to a row created by the
\* same import for the same new project
C26_ReferentialIntegrity ==
    \A c \in 1..calls :
        /\ \A r \in CommittedRows(c, "chapters") :
              ReferenceWithinImport(c, "outlines", r.outline_id)
        /\ \A r \in CommittedRows(c, "relationships") :
              /\ ReferenceWithinImport(c, "characters", r.character_from_id)
              /\ ReferenceWithinImport(c, "characters", r.character_to_id)
        /\ \A r \in CommittedRows(c, "organizations") :
              /\ ReferenceWithinImport(c, "characters", r.character_id)
              /\ ReferenceWithinImport(c, "organizations", r.parent_org_id)
        /\ \A r \in CommittedRows(c, "members") :
              /\ ReferenceWithinImport(c, "organizations", r.organization_id)
              /\ ReferenceWithinImport(c, "characters", r.character_id)
        /\ \A t \in {"characters", "outlines", "chapters", "relationships", "organizations"} :
              \A r \in CommittedRows(c, t) :
                  \E p \in CommittedRows(c, "projects") : r.project_id = p.id

\* the second of two successful imports into a store that already holds a
\* project with characters of the same names: its rows hold a reference of
\* every kind
C26_Witness ==
    /\ Len(history) = 2
    /\ CommittedRows(1, "characters") # {}
    /\ \E r \in CommittedRows(2, "chapters") : r.outline_id # NoId
    /\ \E r \in CommittedRows(2, "relationships") :
           \E x \in CommittedRows(1, "characters"), y \in CommittedRows(2, "characters") :
               x.name = y.name /\ y.id = r.character_from_id
    /\ \E r \in CommittedRows(2, "organizations") : r.parent_org_id # NoId
    /\ CommittedRows(2, "members") # {}

\* the identifiers met by following parent references for at most n steps
\* from the organization with identifier id
RECURSIVE ParentChain(_, _, _)
ParentChain(organizations, id, n) ==
    IF n = 0 \/ ~HasRow(organizations, id) THEN {}
    ELSE LET parent == RowById(organizations, id).parent_org_id
         IN  IF parent = NoId THEN {}
             ELSE {parent} \cup ParentChain(organizations, parent, n - 1)

\* no organization of the set is met again when parent references are followed
Forest(organizations) ==
    \A o \in organizations :
        o.id \notin ParentChain(organizations, o.id, Cardinality(organizations))

\* the names met by following parent_org_name for at most n steps from the
\* organization of a document that is owned by the character `name`
RECURSIVE ParentNameChain(_, _, _)
ParentNameChain(orgs, name, n) ==
    IF n = 0 \/ ~\E i \in DOMAIN orgs : orgs[i].character_name = name THEN {}
    ELSE LET parent_name == orgs[CHOOSE i \in DOMAIN orgs : orgs[i].character_name = name].parent_org_name
         IN  IF Falsy(parent_name) THEN {}
             ELSE {parent_name} \cup ParentNameChain(orgs, parent_name, n - 1)

\* C27: after any successful import the parent references of the imported
\* organizations form a forest: no organization is its own parent and
\* following parent references never revisits an organization, also for a
\* document in which an organization names itself or two organizations name
\* each other as parent
C27_ParentForest ==
    \A c \in 1..calls : Forest(CommittedRows(c, "organizations"))

\* C27, as the code behaves: the parent references form a forest when the
\* parent names of the document (distinct, resolvable organizations) do
C27_ForestWhenNamesAre ==
    \A i \in DOMAIN history :
        LET orgs == _get(history[i].data, "organizations", <<>>)
        IN  (/\ DistinctResolvableOrganizations(history[i].data)
             /\ \A k \in DOMAIN orgs :
                    orgs[k].character_name \notin
                        ParentNameChain(orgs, orgs[k].character_name, Len(orgs)))
            => Forest(CommittedRows(history[i].call, "organizations"))

\* a committed import of a document in which the organization A names itself
\* and the organizations B and C name each other as parent: A is its own
\* parent and B is the parent of its parent
C27_Witness ==
    /\ pc["s1"] = "done"
    /\ result["s1"].success
    /\ \E o \in CommittedRows(call["s1"], "organizations") : o.parent_org_id = o.id
    /\ \E o, q \in CommittedRows(call["s1"], "organizations") :
           o # q /\ o.parent_org_id = q.id /\ q.parent_org_id = o.id

\* the writing-styles step of the current call of s has run and not been rolled back
AfterStyles(s) ==
    \/ pc[s] = "commit"
    \/ pc[s] = "done" /\ result[s].success

\* the style names of the document of s that the user did not have when the
\* call began
NewStyleNames(s) ==
    {n \in DocStyleNames(data[s]) :
        ~\E w \in db["styles"] : w.user_id = user_id[s] /\ w.name = n /\ w.id[1] < call[s]}

\* the call of s created one style for each new style name of its document,
\* however often the document lists the name, and counted as many
OneStylePerName(s) ==
    /\ \A n \in NewStyleNames(s) :
          Cardinality({w \in CallRows(s, "styles") : w.name = n}) = 1
    /\ Cardinality(CallRows(s, "styles")) = Cardinality(NewStyleNames(s))
    /\ DictGet(statistics[s], "writing_styles", -1) = Cardinality(NewStyleNames(s))

\* C29: within one import, a document that lists the same writing-style name
\* twice creates at most one style of that name: the second occurrence is
\* detected as existing although the first is only pending in the same
\* transaction, and the writing_styles count is 1 for that name
C29_PendingStyleDetected ==
    \A s \in Sessions : AfterStyles(s) => OneStylePerName(s)

\* C29, for a session that flushes pending rows before a query
C29_DetectedWithAutoflush ==
    \A s \in Sessions : (autoflush /\ AfterStyles(s)) => OneStylePerName(s)

\* C29, for a session that does not flush before a query: the lookup misses
\* the pending first occurrence and every occurrence of a new name is created
C29_DuplicatedWithoutAutoflush ==
    \A s \in Sessions :
        (~autoflush /\ AfterStyles(s)) =>
            /\ Cardinality(CallRows(s, "styles")) =
                   Cardinality({i \in DOMAIN data[s].writing_styles :
                                   data[s].writing_styles[i].name \in NewStyleNames(s)})
            /\ DictGet(statistics[s], "writing_styles", -1) =
                   Cardinality(CallRows(s, "styles"))

\* a committed import of a document listing the new name S1 twice
C29_Witness ==
    /\ pc["s1"] = "done"
    /\ result["s1"].success
    /\ Len(data["s1"].writing_styles) = 2
    /\ \A i \in DOMAIN data["s1"].writing_styles : data["s1"].writing_styles[i].name = "S1"
    /\ "S1" \in NewStyleNames("s1")
    /\ Cardinality(CallRows("s1", "styles")) = 1

\* C28: two import_project calls running concurrently for the same user, each
\* with a document containing a writing style of the same name that the user
\* does not yet have, leave the user with at most one style of that name once
\* both have committed
C28_ConcurrentStyleDedup ==
    (\A s \in Sessions : pc[s] = "done" /\ result[s].success)
        => \A w1, w2 \in db["styles"] :
               (w1.user_id = w2.user_id /\ w1.name = w2.name) => w1 = w2

\* both calls looked S1 up before either committed, both created it and both
\* committed: the user u1 has two styles named S1
C28_Witness ==
    /\ \A s \in Sessions : pc[s] = "done" /\ result[s].success /\ user_id[s] = "u1"
    /\ Cardinality({w \in db["styles"] : w.user_id = "u1" /\ w.name = "S1"}) = 2

\* the value the export of a stored number must give: the stored value, and
\* the default when nothing is stored
Preserved(stored, default) == IF stored = NoNumber THEN default ELSE stored

\* the export gave, for every numeric column of the rows of the exported
\* project whose stored value is not in `replaced`, the stored value (the
\* default for a column without value)
NumbersExported(replaced) ==
    LET d == export_data.document
        Same(stored, exported, default) ==
            stored \notin replaced => exported = Preserved(stored, default)
    IN  /\ \A r \in ProjectRelationships(db, export_data.project_id) :
              \E i \in DOMAIN d.relationships :
                  Same(r.intimacy_level, d.relationships[i].intimacy_level, 50)
        /\ \A o \in ProjectOrganizations(db, export_data.project_id) :
              \E i \in DOMAIN d.organizations :
                  /\ Same(o.power_level, d.organizations[i].power_level, 50)
                  /\ Same(o.member_count, d.organizations[i].member_count, 0)
        /\ \A m \in ProjectMembers(db, export_data.project_id) :
              \E i \in DOMAIN d.organization_members :
                  /\ Same(m.rank, d.organization_members[i].rank, 0)
                  /\ Same(m.loyalty, d.organization_members[i].loyalty, 50)
                  /\ Same(m.contribution, d.organization_members[i].contribution, 0)

\* C30: export preserves stored numeric values over their whole range: every
\* stored intimacy_level, loyalty and power_level in 0..100, 0 included, and
\* every stored rank, contribution and member_count is exported as stored, and
\* the default (50, 50, 50, 0, 0, 0) only for a value that is absent
C30_NumbersPreserved ==
    Exported => NumbersExported({})

\* C30, as the code behaves: every stored value other than 0 is exported as
\* stored
C30_NonZeroPreserved ==
    Exported => NumbersExported({0})

\* a project whose relationship has the stored intimacy_level 0 was exported
\* with intimacy_level 50
C30_Witness ==
    /\ Exported
    /\ \E r \in ProjectRelationships(db, export_data.project_id) : r.intimacy_level = 0
    /\ \A i \in DOMAIN export_data.document.relationships :
           export_data.document.relationships[i].intimacy_level = 50

====
